---- MODULE Spec2Model ----
(***************************************************************************)
(* Model of the Altitude daily-summary engine (src/src/altitude_parser.py, *)
(* src/src/database_client.py, src/src/dashboard_queries.py).              *)
(*                                                                         *)
(* Text is a sequence of one-character strings, so that strip, split,      *)
(* int(), lower(), substring tests and the regular expressions of the      *)
(* parser are computed character by character as the Python code does.     *)
(* Offsets are 0-based as in Python; sequence indices are offset + 1.      *)
(*                                                                         *)
(* The parser keeps no state between calls; what persists is the           *)
(* activities table of the database (store).  The state of the model is    *)
(* one call (call), its arguments (args), how far it has got (pc), what it *)
(* returned (ret) and the rows of the table (store).                       *)
(***************************************************************************)
EXTENDS Integers, Sequences, FiniteSets, TLC

VARIABLES call, args, pc, ret, store

vars == <<call, args, pc, ret, store>>

(***************************************************************************)
(* Bounds of the model.                                                    *)
(***************************************************************************)
\* records per snippet
MaxRecords == 2
\* lines per decoded body
MaxLines == 2
\* events per hand-made event list
MaxEvents == 3
\* messages per processing run
MaxMsgs == 2

(***************************************************************************)
(* Python str primitives.                                                  *)
(***************************************************************************)
LowerLetters == <<"a","b","c","d","e","f","g","h","i","j","k","l","m","n","o","p","q","r","s","t","u","v","w","x","y","z">>
UpperLetters == <<"A","B","C","D","E","F","G","H","I","J","K","L","M","N","O","P","Q","R","S","T","U","V","W","X","Y","Z">>

Digits == <<"0","1","2","3","4","5","6","7","8","9">>

Min(S) == CHOOSE x \in S : \A y \in S : x <= y
Max(S) == CHOOSE x \in S : \A y \in S : y <= x
Abs(n) == IF n < 0 THEN -n ELSE n

\* \s of the re module and the whitespace of str.strip / str.split
IsSpace(c) == c \in {" ", "\n", "\t", "\r"}
LowerSet == {LowerLetters[k] : k \in 1..26}
UpperSet == {UpperLetters[k] : k \in 1..26}
DigitSet == {Digits[d] : d \in 1..10}
UpperOf == [c \in LowerSet |-> UpperLetters[CHOOSE k \in 1..26 : LowerLetters[k] = c]]
LowerOf == [c \in UpperSet |-> LowerLetters[CHOOSE k \in 1..26 : UpperLetters[k] = c]]
ValueOf == [c \in DigitSet |-> (CHOOSE d \in 1..10 : Digits[d] = c) - 1]

IsDigit(c) == c \in DigitSet
DigitVal(c) == ValueOf[c]
IsLower(c) == c \in LowerSet
IsUpper(c) == c \in UpperSet
\* \w of the re module
IsWordChar(c) == IsLower(c) \/ IsUpper(c) \/ IsDigit(c) \/ c = "_"

\* str.upper() and str.lower() of one character
UpperChar(c) == IF c \in LowerSet THEN UpperOf[c] ELSE c
LowerChar(c) == IF c \in UpperSet THEN LowerOf[c] ELSE c

PyUpper(s) == [i \in 1..Len(s) |-> UpperChar(s[i])]
PyLower(s) == [i \in 1..Len(s) |-> LowerChar(s[i])]

\* s.startswith(p)
PyStartsWith(s, p) == Len(p) <= Len(s) /\ \A i \in 1..Len(p) : s[i] = p[i]

\* the offsets at which p occurs in s
Occurrences(s, p) == {o \in 0..(Len(s) - Len(p)) : \A i \in 1..Len(p) : s[o + i] = p[i]}

\* p in s
PyContains(s, p) == Occurrences(s, p) # {}

\* s.find(p)
PyFind(s, p) == IF Occurrences(s, p) = {} THEN -1 ELSE Min(Occurrences(s, p))

\* s.strip()
PyStrip(s) ==
  LET keep == {i \in 1..Len(s) : ~IsSpace(s[i])}
  IN  IF keep = {} THEN <<>> ELSE SubSeq(s, Min(keep), Max(keep))

RECURSIVE SortedSeq(_)
SortedSeq(S) == IF S = {} THEN <<>> ELSE <<Min(S)>> \o SortedSeq(S \ {Min(S)})

\* s.split(): the maximal runs of non-whitespace, in order
PySplit(s) ==
  LET starts == {i \in 1..Len(s) : ~IsSpace(s[i]) /\ (i = 1 \/ IsSpace(s[i - 1]))}
      stop(i) == Min({j \in i..Len(s) : j = Len(s) \/ IsSpace(s[j + 1])})
      order == SortedSeq(starts)
  IN  [k \in 1..Len(order) |-> SubSeq(s, order[k], stop(order[k]))]

\* s.split(sep) for a one-character sep: empty parts are kept
PySplitOn(s, sep) ==
  LET cuts == {i \in 1..Len(s) : s[i] = sep}
      order == <<0>> \o SortedSeq(cuts) \o <<Len(s) + 1>>
  IN  [k \in 1..(Len(order) - 1) |-> SubSeq(s, order[k] + 1, order[k + 1] - 1)]

RECURSIVE DigitsValue(_)
DigitsValue(s) == IF s = <<>> THEN 0 ELSE 10 * DigitsValue(SubSeq(s, 1, Len(s) - 1)) + DigitVal(s[Len(s)])

\* int(s) of a text without whitespace: an optional sign, then digits in which
\* single underscores may separate digits; anything else raises ValueError
Signed(s) == Len(s) >= 1 /\ s[1] \in {"+", "-"}
Shaped(body) ==
  /\ Len(body) >= 1
  /\ \A i \in 1..Len(body) : IsDigit(body[i]) \/ body[i] = "_"
  /\ IsDigit(body[1]) /\ IsDigit(body[Len(body)])
  /\ \A i \in 1..(Len(body) - 1) : ~(body[i] = "_" /\ body[i + 1] = "_")
IntOf(negative, body) ==
  IF ~Shaped(body) THEN [raised |-> TRUE, val |-> 0]
  ELSE [raised |-> FALSE,
        val |-> IF negative THEN 0 - DigitsValue(SelectSeq(body, IsDigit))
                ELSE DigitsValue(SelectSeq(body, IsDigit))]
PyInt(s) ==
  IF Signed(s) THEN IntOf(s[1] = "-", SubSeq(s, 2, Len(s))) ELSE IntOf(FALSE, s)

(***************************************************************************)
(* Time utility: time_to_minutes and parse_time_duration.  The parser, the *)
(* database client and the dashboard queries each carry their own copy.    *)
(***************************************************************************)
AM == <<"A","M">>
PM == <<"P","M">>
Unknown == <<"U","n","k","n","o","w","n">>

\* the try block of time_to_minutes; raised stands for any exception in it
\* the 12-hour adjustment: hours += 12 for PM unless 12, hours = 0 for 12 AM
Hours24(hours, period) ==
  IF period = PM /\ hours # 12 THEN hours + 12
  ELSE IF period = AM /\ hours = 12 THEN 0
  ELSE hours
\* hours * 60 + minutes, of the two int() results and period.upper()
MinutesOfDay(h, m, period) ==
  IF h.raised \/ m.raised THEN [raised |-> TRUE, val |-> 0]
  ELSE [raised |-> FALSE, val |-> Hours24(h.val, period) * 60 + m.val]
\* hours, minutes = map(int, time_part.split(':'))
MinutesOfParts(parts, period) ==
  IF Len(parts) # 2 THEN [raised |-> TRUE, val |-> 0]
  ELSE MinutesOfDay(PyInt(parts[1]), PyInt(parts[2]), PyUpper(period))
\* time_part, period = time_str.strip().split()
MinutesOfTokens(tokens) ==
  IF Len(tokens) # 2 THEN [raised |-> TRUE, val |-> 0]
  ELSE MinutesOfParts(PySplitOn(tokens[1], ":"), tokens[2])
TimeToMinutesTry(time_str) == MinutesOfTokens(PySplit(PyStrip(time_str)))

\* time_to_minutes without its "AM and hours == 12" branch
TimeToMinutesNoMidnightRule(time_str) ==
  LET r == TimeToMinutesTry(time_str)
      tokens == PySplit(PyStrip(time_str))
  IN  IF r.raised THEN 0
      ELSE IF PyUpper(tokens[2]) = AM /\ PyInt(PySplitOn(tokens[1], ":")[1]).val = 12
           THEN r.val + 720
           ELSE r.val

\* "except: return 0"
ZeroIfRaised(r) == IF r.raised THEN 0 ELSE r.val

\* AltitudeParser.time_to_minutes
time_to_minutes(time_str) == ZeroIfRaised(TimeToMinutesTry(time_str))

\* DatabaseClient._time_to_minutes
db_time_to_minutes(time_str) == ZeroIfRaised(TimeToMinutesTry(time_str))

\* DashboardQueries._time_to_minutes
dash_time_to_minutes(time_str) == ZeroIfRaised(TimeToMinutesTry(time_str))

\* max(0, end_mins - start_mins)
MaxZero(start_mins, end_mins) ==
  IF 0 >= end_mins - start_mins THEN 0 ELSE end_mins - start_mins

\* parse_time_duration without max(0, ...)
ParseTimeDurationUnclamped(start_time, end_time) ==
  time_to_minutes(end_time) - time_to_minutes(start_time)

\* AltitudeParser.parse_time_duration; time_to_minutes cannot raise, so the
\* except branch is never taken
parse_time_duration(start_time, end_time) ==
  MaxZero(time_to_minutes(start_time), time_to_minutes(end_time))

\* DatabaseClient._parse_time_duration
db_parse_time_duration(start_time, end_time) ==
  MaxZero(db_time_to_minutes(start_time), db_time_to_minutes(end_time))

\* DashboardQueries._parse_time_duration
dash_parse_time_duration(start_time, end_time) ==
  MaxZero(dash_time_to_minutes(start_time), dash_time_to_minutes(end_time))

(***************************************************************************)
(* Time texts the calls are made with.                                     *)
(***************************************************************************)
HourTexts == {<<"1">>, <<"2">>, <<"3">>, <<"4">>, <<"5">>, <<"6">>, <<"7">>, <<"8">>, <<"9">>, <<"1","0">>, <<"1","1">>, <<"1","2">>, <<"0","1">>, <<"0","2">>, <<"0","3">>, <<"0","4">>, <<"0","5">>, <<"0","6">>, <<"0","7">>, <<"0","8">>, <<"0","9">>}
MinuteTexts == {<<"0","0">>, <<"0","1">>, <<"1","4">>, <<"3","0">>, <<"4","6">>, <<"5","3">>, <<"5","9">>}
MeridiemTexts == {<<"A","M">>, <<"P","M">>, <<"a","m">>, <<"p","m">>, <<"A","m">>, <<"P","m">>, <<"a","M">>, <<"p","M">>}

\* every "H:MM AM/PM" text over the hour, minute and meridiem texts above
WellFormedTimes ==
  {h \o <<":">> \o m \o <<" ">> \o p : h \in HourTexts, m \in MinuteTexts, p \in MeridiemTexts}

BadHourTexts == {<<"0">>, <<"0","0">>, <<"1","3">>, <<"2","5">>, <<"-","1">>, <<"x">>, <<>>}
BadMinuteTexts == {<<"6","0">>, <<"7","5">>, <<"5">>, <<"x","x">>, <<>>, <<"-","5">>}
BadMeridiemTexts == {<<"X","M">>, <<"A">>, <<"M">>, <<"A","M","M">>}

\* texts that are not an "H:MM AM/PM" time of day
MalformedTimes ==
  {h \o <<":">> \o m \o <<" ">> \o p : h \in BadHourTexts, m \in {<<"0","0">>, <<"3","0">>}, p \in {AM, PM}}
  \cup {h \o <<":">> \o m \o <<" ">> \o p : h \in {<<"2">>, <<"1","2">>}, m \in BadMinuteTexts, p \in {AM, PM}}
  \cup {h \o <<":">> \o m \o <<" ">> \o p : h \in {<<"2">>, <<"1","2">>}, m \in {<<"0","0">>, <<"3","0">>}, p \in BadMeridiemTexts}
  \cup {<<"U","n","k","n","o","w","n">>, <<>>, <<"1","0",":","0","0">>, <<"2",":","3","0">>, <<"1","2">>, <<"A","M">>, <<"1",":","2",":","3"," ","A","M">>, <<"1","2","3","0"," ","P","M">>, <<"1","2",":","3","0","P","M">>, <<"1","2"," ","3","0"," ","P","M">>, <<"1","2",":","3","0"," ","P"," ","M">>, <<"n","o","o","n">>}

TimeTexts == WellFormedTimes \cup MalformedTimes

(***************************************************************************)
(* The regular expressions of AltitudeParser.__init__, all compiled with   *)
(* re.IGNORECASE.  A match is [start, end, group0, group1] with 0-based    *)
(* offsets, end exclusive.                                                 *)
(***************************************************************************)
Ch(s, i) == IF i \in 1..Len(s) THEN s[i] ELSE ""

\* the literal lit matches at offset o of s, letter case ignored
MatchLit(s, o, lit) ==
  o + Len(lit) <= Len(s) /\ \A i \in 1..Len(lit) : LowerChar(s[o + i]) = LowerChar(lit[i])

\* the offset after the longest run of \s that starts at offset o
SkipSpaces(s, o) == Min({j \in o..Len(s) : j = Len(s) \/ ~IsSpace(s[j + 1])})

NoMatch == [start |-> -1, end |-> -1, group0 |-> <<>>, group1 |-> <<>>]

\* "<name>\s*(v1|v2|...)" tried at offset o: \s* is greedy and the
\* alternatives are tried in order, the first that matches is taken
FieldMatchAt(s, o, name, values) ==
  IF ~MatchLit(s, o, name) THEN NoMatch
  ELSE
    LET v == SkipSpaces(s, o + Len(name))
        hits == {k \in 1..Len(values) : MatchLit(s, v, values[k])}
    IN  IF hits = {} THEN NoMatch
        ELSE [start |-> o,
              end |-> v + Len(values[Min(hits)]),
              group0 |-> SubSeq(s, o + 1, v + Len(values[Min(hits)])),
              group1 |-> SubSeq(s, v + 1, v + Len(values[Min(hits)]))]

\* patterns['time_posted'] = posted\s+(\d{1,2}:\d{2}\s+[AP]M) tried at offset o
TimeMatchAt(s, o) ==
  LET a == o + 6
      b == SkipSpaces(s, a)
      d == IF IsDigit(Ch(s, b + 1)) /\ IsDigit(Ch(s, b + 2)) /\ Ch(s, b + 3) = ":" THEN 2
           ELSE IF IsDigit(Ch(s, b + 1)) /\ Ch(s, b + 2) = ":" THEN 1
           ELSE 0
      e == b + d + 3
      f == SkipSpaces(s, e)
  IN  IF /\ MatchLit(s, o, <<"p","o","s","t","e","d">>)
         /\ b > a
         /\ d > 0
         /\ IsDigit(Ch(s, e - 1)) /\ IsDigit(Ch(s, e))
         /\ f > e
         /\ LowerChar(Ch(s, f + 1)) \in {"a", "p"}
         /\ LowerChar(Ch(s, f + 2)) = "m"
      THEN [start |-> o, end |-> f + 2,
            group0 |-> SubSeq(s, o + 1, f + 2), group1 |-> SubSeq(s, b + 1, f + 2)]
      ELSE NoMatch

\* pattern.finditer: the matches found scanning left to right, each search
\* resuming at the end of the previous match
RECURSIVE Scan(_, _)
Scan(ms, from) ==
  LET next == {m \in ms : m.start >= from}
  IN  IF next = {} THEN <<>>
      ELSE LET m == CHOOSE x \in next : \A y \in next : x.start <= y.start
           IN  <<m>> \o Scan(ms, m.end)

TimePostedFindIter(content) ==
  Scan({TimeMatchAt(content, o) : o \in 0..Len(content)} \ {NoMatch}, 0)

FieldFindIter(content, name, values) ==
  Scan({FieldMatchAt(content, o, name, values) : o \in 0..Len(content)} \ {NoMatch}, 0)

Toileting == <<"T","o","i","l","e","t","i","n","g">>
Diaper == <<"D","i","a","p","e","r">>
Nap == <<"N","a","p">>
AMSnack == <<"A","M"," ","S","n","a","c","k">>
Lunch == <<"L","u","n","c","h">>
PMSnack == <<"P","M"," ","S","n","a","c","k">>

\* activity_extractors of _extract_from_content with the patterns of __init__
activity_extractors == <<
  [activity |-> Toileting, name |-> <<"T","o","i","l","e","t","i","n","g",":">>, values |-> <<<<"W","e","t">>, <<"D","r","y">>, <<"B","M">>>>],
  [activity |-> Diaper, name |-> <<"D","i","a","p","e","r",":">>, values |-> <<<<"W","e","t">>, <<"D","r","y">>, <<"B","M">>, <<"W","e","t"," ","+"," ","B","M">>>>],
  [activity |-> Nap, name |-> <<"N","a","p",":">>, values |-> <<<<"S","t","a","r","t">>, <<"S","t","o","p">>>>],
  [activity |-> AMSnack, name |-> <<"A","M"," ","S","n","a","c","k",":">>, values |-> <<<<"A","l","l">>, <<"S","o","m","e">>, <<"N","o","n","e">>>>],
  [activity |-> Lunch, name |-> <<"L","u","n","c","h",":">>, values |-> <<<<"A","l","l">>, <<"S","o","m","e">>, <<"N","o","n","e">>>>],
  [activity |-> PMSnack, name |-> <<"P","M"," ","S","n","a","c","k",":">>, values |-> <<<<"A","l","l">>, <<"S","o","m","e">>, <<"N","o","n","e">>>>] >>

(***************************************************************************)
(* AltitudeParser._find_closest_time                                       *)
(***************************************************************************)
\* the loop with "distance <= min_distance": the last of two equally near wins
RECURSIVE ClosestLoopLastWins(_, _, _, _, _)
ClosestLoopLastWins(time_matches, k, activity_position, min_distance, closest_time) ==
  IF k > Len(time_matches) THEN closest_time
  ELSE
    LET distance == Abs(time_matches[k].start - activity_position)
    IN  IF min_distance.inf \/ distance <= min_distance.val
        THEN ClosestLoopLastWins(time_matches, k + 1, activity_position,
                                 [inf |-> FALSE, val |-> distance], time_matches[k].group1)
        ELSE ClosestLoopLastWins(time_matches, k + 1, activity_position, min_distance, closest_time)

RECURSIVE ClosestLoop(_, _, _, _, _)
ClosestLoop(time_matches, k, activity_position, min_distance, closest_time) ==
  IF k > Len(time_matches) THEN closest_time
  ELSE
    LET distance == Abs(time_matches[k].start - activity_position)
    IN  IF min_distance.inf \/ distance < min_distance.val
        THEN ClosestLoop(time_matches, k + 1, activity_position,
                         [inf |-> FALSE, val |-> distance], time_matches[k].group1)
        ELSE ClosestLoop(time_matches, k + 1, activity_position, min_distance, closest_time)

find_closest_time(content, activity_position, time_matches) ==
  IF time_matches = <<>> THEN Unknown
  ELSE ClosestLoop(time_matches, 1, activity_position, [inf |-> TRUE, val |-> 0], Unknown)

(***************************************************************************)
(* AltitudeParser._extract_educational_activities: the keyword scan of the *)
(* full body.  It appends to the activities found so far.                  *)
(***************************************************************************)
educational_keywords == <<<<"c","l","a","y">>, <<"a","r","t">>, <<"p","a","i","n","t">>, <<"b","o","o","k">>, <<"s","t","o","r","y">>, <<"m","u","s","i","c">>, <<"d","a","n","c","e">>, <<"g","a","m","e">>, <<"p","l","a","y">>, <<"p","u","z","z","l","e">>, <<"c","r","a","f","t">>, <<"d","r","a","w">>, <<"c","o","l","o","r">>, <<"s","i","n","g">>>>

\* str.title() of a text: a letter that follows a letter is lowered, any
\* other letter is raised
PyTitle(s) ==
  [i \in 1..Len(s) |->
     IF i > 1 /\ (IsLower(s[i - 1]) \/ IsUpper(s[i - 1])) THEN LowerChar(s[i]) ELSE UpperChar(s[i])]

\* re.search(rf'\b{keyword}\b', line, re.IGNORECASE)
WholeWordIn(line, keyword) ==
  \E o \in 0..Len(line) :
    /\ MatchLit(line, o, keyword)
    /\ ~IsWordChar(Ch(line, o))
    /\ ~IsWordChar(Ch(line, o + Len(keyword) + 1))

\* the "is this really an activity" test on the lowered line
LooksLikeActivity(line, keyword) ==
  \/ PyStartsWith(PyLower(line), PyLower(keyword))
  \/ PyContains(PyLower(line), <<" ">> \o PyLower(keyword) \o <<" ">>)
  \/ PyContains(PyLower(line), PyLower(keyword) \o <<" ">>)

RECURSIVE KeywordLoop(_, _, _, _, _)
KeywordLoop(content, all_time_matches, line, k, activities) ==
  IF k > Len(educational_keywords) THEN activities
  ELSE
    LET keyword == educational_keywords[k]
        line_pos == PyFind(content, line)
        activity_data == [time |-> find_closest_time(content, line_pos, all_time_matches),
                          activity |-> PyTitle(keyword),
                          type |-> <<>>,
                          raw_content |-> line]
    IN  IF /\ WholeWordIn(line, keyword)
           /\ LooksLikeActivity(line, keyword)
           /\ ~\E i \in 1..Len(activities) : PyLower(activities[i].activity) = PyLower(keyword)
        THEN Append(activities, activity_data)
        ELSE KeywordLoop(content, all_time_matches, line, k + 1, activities)

RECURSIVE LineLoop(_, _, _, _, _)
LineLoop(content, all_time_matches, lines, n, activities) ==
  IF n > Len(lines) THEN activities
  ELSE
    LET line == PyStrip(lines[n])
    IN  IF line = <<>>
        THEN LineLoop(content, all_time_matches, lines, n + 1, activities)
        ELSE LineLoop(content, all_time_matches, lines, n + 1,
                      KeywordLoop(content, all_time_matches, line, 1, activities))

extract_educational_activities(content, activities, all_time_matches) ==
  LineLoop(content, all_time_matches, PySplitOn(content, "\n"), 1, activities)

(***************************************************************************)
(* AltitudeParser._extract_from_content                                    *)
(***************************************************************************)
\* the activities of one extractor, one per match, in match order
ExtractorActivities(content, all_time_matches, x) ==
  LET matches == FieldFindIter(content, x.name, x.values)
  IN  [k \in 1..Len(matches) |->
         [time |-> find_closest_time(content, matches[k].start, all_time_matches),
          activity |-> x.activity,
          type |-> matches[k].group1,
          raw_content |-> matches[k].group0]]

RECURSIVE ExtractorLoop(_, _, _)
ExtractorLoop(content, all_time_matches, n) ==
  IF n = 0 THEN <<>>
  ELSE ExtractorLoop(content, all_time_matches, n - 1)
         \o ExtractorActivities(content, all_time_matches, activity_extractors[n])

\* the keyword scan run whatever the source is
ExtractFromContentScanningAlways(content, source) ==
  LET all_time_matches == TimePostedFindIter(content)
      activities == ExtractorLoop(content, all_time_matches, Len(activity_extractors))
  IN  extract_educational_activities(content, activities, all_time_matches)

extract_from_content(content, source) ==
  LET all_time_matches == TimePostedFindIter(content)
      activities == ExtractorLoop(content, all_time_matches, Len(activity_extractors))
  IN  IF source = "full"
      THEN extract_educational_activities(content, activities, all_time_matches)
      ELSE activities

(***************************************************************************)
(* Messages.  A message is [id, snippet, payload]; a payload is            *)
(* [kind |-> "none"], [kind |-> "single", body] or [kind |-> "parts",      *)
(* parts], a part is [mimeType, body], and a body is [present, valid,      *)
(* text]: whether body.data is a non-empty string, whether it decodes      *)
(* (urlsafe base64, then UTF-8), and the text it decodes to.               *)
(***************************************************************************)
\* AltitudeParser._get_full_body_content
RECURSIVE PartsLoop(_, _)
PartsLoop(parts, n) ==
  IF n > Len(parts) THEN <<>>
  ELSE IF parts[n].mimeType = "text/plain" /\ parts[n].body.present /\ parts[n].body.valid
       THEN parts[n].body.text
       ELSE PartsLoop(parts, n + 1)

get_full_body_content(message) ==
  IF message.payload.kind = "none" THEN <<>>
  ELSE IF message.payload.kind = "parts" THEN PartsLoop(message.payload.parts, 1)
  ELSE IF message.payload.body.present /\ message.payload.body.valid
       THEN message.payload.body.text
       ELSE <<>>

\* the loop over full_activities of extract_activities_from_message: the
\* list it tests against is the list it appends to
RECURSIVE MergeLoop(_, _, _)
MergeLoop(full_activities, n, activities) ==
  IF n > Len(full_activities) THEN activities
  ELSE
    LET activity == full_activities[n]
        existing == \E i \in 1..Len(activities) :
                      /\ activities[i].activity = activity.activity
                      /\ activities[i].type = activity.type
                      /\ activities[i].time = activity.time
    IN  MergeLoop(full_activities, n + 1,
                  IF existing THEN activities ELSE Append(activities, activity))

\* AltitudeParser.extract_activities_from_message
extract_activities_from_message(message) ==
  LET snippet == message.snippet
      snippet_activities == extract_from_content(snippet, "snippet")
      full_content == get_full_body_content(message)
  IN  IF full_content # <<>> /\ full_content # snippet
      THEN MergeLoop(extract_from_content(full_content, "full"), 1, snippet_activities)
      ELSE snippet_activities

(***************************************************************************)
(* Daily aggregation of the parser (the legacy, in-memory path).           *)
(***************************************************************************)
\* Python's None
None == [none |-> TRUE, val |-> <<>>]
Some(v) == [none |-> FALSE, val |-> v]
\* truth value of an optional text: None and '' are false
Truthy(x) == ~x.none /\ x.val # <<>>

\* AltitudeParser.count_activities_by_type
RECURSIVE CountLoop(_, _, _)
CountLoop(filtered, n, counts) ==
  IF n > Len(filtered) THEN counts
  ELSE
    LET activity_type == PyLower(filtered[n].type)
    IN  CountLoop(filtered, n + 1,
          [wet |-> counts.wet + (IF PyContains(activity_type, <<"w","e","t">>) THEN 1 ELSE 0),
           dry |-> counts.dry + (IF PyContains(activity_type, <<"d","r","y">>) THEN 1 ELSE 0),
           bm |-> counts.bm + (IF PyContains(activity_type, <<"b","m">>) THEN 1 ELSE 0)])

\* count_activities_by_type with if / elif / elif: one counter per event
RECURSIVE CountLoopExclusive(_, _, _)
CountLoopExclusive(filtered, n, counts) ==
  IF n > Len(filtered) THEN counts
  ELSE
    LET activity_type == PyLower(filtered[n].type)
    IN  CountLoopExclusive(filtered, n + 1,
          IF PyContains(activity_type, <<"w","e","t">>) THEN [counts EXCEPT !.wet = @ + 1]
          ELSE IF PyContains(activity_type, <<"d","r","y">>) THEN [counts EXCEPT !.dry = @ + 1]
          ELSE IF PyContains(activity_type, <<"b","m">>) THEN [counts EXCEPT !.bm = @ + 1]
          ELSE counts)

CountActivitiesExclusive(activities, activity_name) ==
  LET Keep(a) == a.activity = activity_name
  IN  CountLoopExclusive(SelectSeq(activities, Keep), 1, [wet |-> 0, dry |-> 0, bm |-> 0])

count_activities_by_type(activities, activity_name) ==
  LET Keep(a) == a.activity = activity_name
  IN  CountLoop(SelectSeq(activities, Keep), 1, [wet |-> 0, dry |-> 0, bm |-> 0])

\* the loop of AltitudeParser.calculate_nap_duration: every Start and every
\* Stop overwrites the one seen before
RECURSIVE NapLoop(_, _, _, _)
NapLoop(activities, n, nap_start, nap_end) ==
  IF n > Len(activities) THEN [nap_start |-> nap_start, nap_end |-> nap_end]
  ELSE IF activities[n].activity = Nap /\ PyLower(activities[n].type) = <<"s","t","a","r","t">>
       THEN NapLoop(activities, n + 1, Some(activities[n].time), nap_end)
  ELSE IF activities[n].activity = Nap /\ PyLower(activities[n].type) = <<"s","t","o","p">>
       THEN NapLoop(activities, n + 1, nap_start, Some(activities[n].time))
  ELSE NapLoop(activities, n + 1, nap_start, nap_end)

\* AltitudeParser.calculate_nap_duration
calculate_nap_duration(activities) ==
  LET r == NapLoop(activities, 1, None, None)
  IN  IF /\ Truthy(r.nap_start) /\ Truthy(r.nap_end)
         /\ r.nap_start.val # Unknown /\ r.nap_end.val # Unknown
      THEN parse_time_duration(r.nap_start.val, r.nap_end.val)
      ELSE 0

\* AltitudeParser.get_meal_status: each meal event overwrites its slot
NoneText == <<"N","o","n","e">>

RECURSIVE MealLoop(_, _, _)
MealLoop(activities, n, meals) ==
  IF n > Len(activities) THEN meals
  ELSE IF activities[n].activity = AMSnack
       THEN MealLoop(activities, n + 1, [meals EXCEPT !.am_snack = activities[n].type])
  ELSE IF activities[n].activity = Lunch
       THEN MealLoop(activities, n + 1, [meals EXCEPT !.lunch = activities[n].type])
  ELSE IF activities[n].activity = PMSnack
       THEN MealLoop(activities, n + 1, [meals EXCEPT !.pm_snack = activities[n].type])
  ELSE MealLoop(activities, n + 1, meals)

get_meal_status(activities) ==
  MealLoop(activities, 1, [am_snack |-> NoneText, lunch |-> NoneText, pm_snack |-> NoneText])

\* AltitudeParser.get_other_activities
standard_activities == {Toileting, Diaper, Nap, AMSnack, Lunch, PMSnack}

RECURSIVE OtherLoop(_, _, _)
OtherLoop(activities, n, other_activities) ==
  IF n > Len(activities) THEN other_activities
  ELSE
    LET activity_str == activities[n].activity \o <<":", " ">> \o activities[n].type
    IN  IF /\ activities[n].activity \notin standard_activities
           /\ ~\E i \in 1..Len(other_activities) : other_activities[i] = activity_str
        THEN OtherLoop(activities, n + 1, Append(other_activities, activity_str))
        ELSE OtherLoop(activities, n + 1, other_activities)

get_other_activities(activities) == OtherLoop(activities, 1, <<>>)

(***************************************************************************)
(* Dates: datetime.strptime(date_str, '%Y-%m-%d') and                      *)
(* strftime('%A, %B %d, %Y').                                              *)
(***************************************************************************)
WeekdayNames == <<<<"M","o","n","d","a","y">>, <<"T","u","e","s","d","a","y">>, <<"W","e","d","n","e","s","d","a","y">>, <<"T","h","u","r","s","d","a","y">>, <<"F","r","i","d","a","y">>, <<"S","a","t","u","r","d","a","y">>, <<"S","u","n","d","a","y">>>>
MonthNames == <<<<"J","a","n","u","a","r","y">>, <<"F","e","b","r","u","a","r","y">>, <<"M","a","r","c","h">>, <<"A","p","r","i","l">>, <<"M","a","y">>, <<"J","u","n","e">>, <<"J","u","l","y">>, <<"A","u","g","u","s","t">>, <<"S","e","p","t","e","m","b","e","r">>, <<"O","c","t","o","b","e","r">>, <<"N","o","v","e","m","b","e","r">>, <<"D","e","c","e","m","b","e","r">>>>

AllDigits(s) == \A i \in 1..Len(s) : IsDigit(s[i])

IsLeap(y) == (y % 4 = 0 /\ y % 100 # 0) \/ y % 400 = 0
DaysInMonth(y, m) ==
  IF m = 2 THEN (IF IsLeap(y) THEN 29 ELSE 28)
  ELSE IF m \in {4, 6, 9, 11} THEN 30 ELSE 31

\* %Y is four digits; %m is 1[0-2]|0[1-9]|[1-9]; %d is
\* 3[0-1]|[1-2]\d|0[1-9]|[1-9]| [1-9]; the whole text must be consumed and the
\* fields must name a day of the calendar
strptime(date_str) ==
  LET parts == PySplitOn(date_str, "-")
      Y == parts[1]
      m == parts[2]
      d == IF Len(parts[3]) = 2 /\ parts[3][1] = " " THEN SubSeq(parts[3], 2, 2) ELSE parts[3]
      shaped == /\ Len(parts) = 3
                /\ Len(Y) = 4 /\ AllDigits(Y)
                /\ Len(m) \in {1, 2} /\ AllDigits(m) /\ DigitsValue(m) \in 1..12
                /\ Len(d) \in {1, 2} /\ AllDigits(d) /\ DigitsValue(d) \in 1..31
  IN  IF shaped /\ DigitsValue(Y) >= 1 /\ DigitsValue(d) <= DaysInMonth(DigitsValue(Y), DigitsValue(m))
      THEN [raised |-> FALSE, year |-> DigitsValue(Y), month |-> DigitsValue(m), day |-> DigitsValue(d)]
      ELSE [raised |-> TRUE, year |-> 0, month |-> 0, day |-> 0]

\* date.weekday(): 0 is Monday
Weekday(y, m, d) ==
  LET t == <<0, 3, 2, 5, 0, 3, 5, 1, 4, 6, 2, 4>>
      yy == IF m < 3 THEN y - 1 ELSE y
      sunday0 == (yy + (yy \div 4) - (yy \div 100) + (yy \div 400) + t[m] + d) % 7
  IN  (sunday0 + 6) % 7

RECURSIVE NumText(_)
NumText(n) == IF n < 10 THEN <<Digits[n + 1]>> ELSE NumText(n \div 10) \o <<Digits[(n % 10) + 1]>>

\* '%A, %B %d, %Y'
strftime(date_obj) ==
  WeekdayNames[Weekday(date_obj.year, date_obj.month, date_obj.day) + 1] \o <<",", " ">>
    \o MonthNames[date_obj.month] \o <<" ">>
    \o (IF date_obj.day < 10 THEN <<"0">> ELSE <<>>) \o NumText(date_obj.day) \o <<",", " ">>
    \o NumText(date_obj.year)

(***************************************************************************)
(* AltitudeParser.generate_daily_summary and process_messages_legacy.      *)
(* generated_at (the wall clock) is left out of the summary record.        *)
(***************************************************************************)
Raised == [raised |-> TRUE]

\* generate_daily_summary with an in-place activities.reverse() before the fold
GenerateDailySummaryReversing(activities, date_str) ==
  LET reversed == [k \in 1..Len(activities) |-> activities[Len(activities) + 1 - k]]
      date_obj == strptime(date_str)
  IN  IF date_obj.raised THEN Raised
      ELSE [raised |-> FALSE,
            date |-> date_str,
            formatted_date |-> strftime(date_obj),
            summary |-> [toiletings |-> count_activities_by_type(reversed, Toileting),
                         diapers |-> count_activities_by_type(reversed, Diaper),
                         nap_duration_minutes |-> calculate_nap_duration(reversed),
                         meals |-> get_meal_status(reversed),
                         other_activities |-> get_other_activities(reversed)],
            raw_activities |-> reversed]

generate_daily_summary(activities, date_str) ==
  LET date_obj == strptime(date_str)
  IN  IF date_obj.raised THEN Raised
      ELSE [raised |-> FALSE,
            date |-> date_str,
            formatted_date |-> strftime(date_obj),
            summary |-> [toiletings |-> count_activities_by_type(activities, Toileting),
                         diapers |-> count_activities_by_type(activities, Diaper),
                         nap_duration_minutes |-> calculate_nap_duration(activities),
                         meals |-> get_meal_status(activities),
                         other_activities |-> get_other_activities(activities)],
            raw_activities |-> activities]

\* list.sort(key=...): a stable sort, ascending in time_to_minutes(x['time'])
RECURSIVE SortByTime(_)
SortByTime(activities) ==
  IF activities = <<>> THEN <<>>
  ELSE
    LET sorted == SortByTime(SubSeq(activities, 1, Len(activities) - 1))
        x == activities[Len(activities)]
        k == Cardinality({i \in 1..Len(sorted) :
                            time_to_minutes(sorted[i].time) <= time_to_minutes(x.time)})
    IN  SubSeq(sorted, 1, k) \o <<x>> \o SubSeq(sorted, k + 1, Len(sorted))

RECURSIVE ExtractAll(_, _)
ExtractAll(messages, n) ==
  IF n = 0 THEN <<>>
  ELSE ExtractAll(messages, n - 1) \o extract_activities_from_message(messages[n])

\* process_messages_legacy without the sort
ProcessMessagesLegacyUnsorted(messages, date_str) ==
  generate_daily_summary(ExtractAll(messages, Len(messages)), date_str)

process_messages_legacy(messages, date_str) ==
  generate_daily_summary(SortByTime(ExtractAll(messages, Len(messages))), date_str)

(***************************************************************************)
(* Stored rows.  DatabaseClient.insert_activities turns each activity into *)
(* a row; the daily computations of the database client and of the         *)
(* dashboard read rows.  A row's activity_subtype is optional (NULL).      *)
(***************************************************************************)
ToiletingType == <<"t","o","i","l","e","t","i","n","g">>
DiaperType == <<"d","i","a","p","e","r">>
NapType == <<"n","a","p">>
MealType == <<"m","e","a","l">>
OtherType == <<"o","t","h","e","r">>

\* DatabaseClient._get_activity_type
get_activity_type(activity_name) ==
  LET activity_lower == PyLower(activity_name)
  IN  IF PyContains(activity_lower, <<"t","o","i","l","e","t">>) THEN ToiletingType
      ELSE IF PyContains(activity_lower, <<"d","i","a","p","e","r">>) THEN DiaperType
      ELSE IF PyContains(activity_lower, <<"n","a","p">>) THEN NapType
      ELSE IF PyContains(activity_lower, <<"s","n","a","c","k">>) \/ PyContains(activity_lower, <<"l","u","n","c","h">>) THEN MealType
      ELSE OtherType

\* the db_activity record built in the loop of insert_activities (the
\* insertion timestamp, which only orders the rows, is their position)
db_activity(activity, source_message_id) ==
  [date |-> activity.date,
   activity_type |-> get_activity_type(activity.activity),
   activity_subtype |-> IF activity.type # <<>> THEN Some(PyLower(activity.type)) ELSE None,
   activity_name |-> activity.activity,
   raw_content |-> activity.raw_content,
   parsed_time |-> activity.time,
   source_message_id |-> source_message_id]

\* the loop of DatabaseClient._calculate_nap_duration; .lower() of a NULL
\* subtype raises AttributeError
RECURSIVE DbNapLoop(_, _, _, _)
DbNapLoop(nap_activities, n, nap_start, nap_end) ==
  IF n > Len(nap_activities) THEN [raised |-> FALSE, nap_start |-> nap_start, nap_end |-> nap_end]
  ELSE IF nap_activities[n].activity_subtype.none THEN [raised |-> TRUE, nap_start |-> None, nap_end |-> None]
  ELSE IF PyLower(nap_activities[n].activity_subtype.val) = <<"s","t","a","r","t">>
       THEN DbNapLoop(nap_activities, n + 1, Some(nap_activities[n].parsed_time), nap_end)
  ELSE IF PyLower(nap_activities[n].activity_subtype.val) = <<"s","t","o","p">>
       THEN DbNapLoop(nap_activities, n + 1, nap_start, Some(nap_activities[n].parsed_time))
  ELSE DbNapLoop(nap_activities, n + 1, nap_start, nap_end)

\* DatabaseClient._calculate_nap_duration
db_calculate_nap_duration(activities) ==
  LET IsNap(a) == a.activity_type = NapType
      r == DbNapLoop(SelectSeq(activities, IsNap), 1, None, None)
  IN  IF r.raised THEN Raised
      ELSE [raised |-> FALSE,
            val |-> IF /\ Truthy(r.nap_start) /\ Truthy(r.nap_end)
                       /\ r.nap_start.val # Unknown /\ r.nap_end.val # Unknown
                    THEN db_parse_time_duration(r.nap_start.val, r.nap_end.val)
                    ELSE 0]

\* DashboardQueries._calculate_daily_nap_duration: the first start and the
\* first stop, with no test for the Unknown sentinel
calculate_daily_nap_duration(activities) ==
  LET IsNap(a) == a.activity_type = NapType
      IsStart(a) == a.activity_subtype = Some(<<"s","t","a","r","t">>)
      IsStop(a) == a.activity_subtype = Some(<<"s","t","o","p">>)
      nap_activities == SelectSeq(activities, IsNap)
      starts == SelectSeq(nap_activities, IsStart)
      stops == SelectSeq(nap_activities, IsStop)
  IN  IF starts # <<>> /\ stops # <<>>
      THEN dash_parse_time_duration(starts[1].parsed_time, stops[1].parsed_time)
      ELSE 0

\* the loop of DatabaseClient._get_other_activities
RECURSIVE DbOtherLoop(_, _, _)
DbOtherLoop(activities, n, other_activities) ==
  IF n > Len(activities) THEN other_activities
  ELSE
    LET activity_name == activities[n].activity_name
        activity_subtype == activities[n].activity_subtype
        activity_str == IF Truthy(activity_subtype)
                        THEN activity_name \o <<":", " ">> \o activity_subtype.val
                        ELSE activity_name
    IN  IF /\ activities[n].activity_type = OtherType
           /\ ~\E i \in 1..Len(other_activities) : other_activities[i] = activity_str
        THEN DbOtherLoop(activities, n + 1, Append(other_activities, activity_str))
        ELSE DbOtherLoop(activities, n + 1, other_activities)

\* DatabaseClient._get_other_activities
db_get_other_activities(activities) == DbOtherLoop(activities, 1, <<>>)

\* the 'generated_at' entry of a summary: datetime.now() at the time of the call
Clock == {"t1", "t2"}
Stamped(summary, now) ==
  IF summary.raised THEN summary
  ELSE [raised |-> FALSE,
        date |-> summary.date,
        formatted_date |-> summary.formatted_date,
        generated_at |-> now,
        summary |-> summary.summary,
        raw_activities |-> summary.raw_activities]

(***************************************************************************)
(* The store and the dashboard's range queries.  The store is the list of  *)
(* rows of the activities table in insertion (timestamp) order.            *)
(***************************************************************************)
\* the order of two date texts: character by character, '-' before the digits
DateCode(c) == IF c = "-" THEN 45 ELSE 48 + DigitVal(c)
RECURSIVE DateLess(_, _, _)
DateLess(a, b, i) ==
  IF i > Len(a) \/ i > Len(b) THEN Len(a) < Len(b)
  ELSE IF a[i] = b[i] THEN DateLess(a, b, i + 1)
  ELSE DateCode(a[i]) < DateCode(b[i])
DateLeq(a, b) == a = b \/ DateLess(a, b, 1)

\* DatabaseClient.get_activities_by_date_range
get_activities_by_date_range(table, start_date, end_date) ==
  LET InRange(row) == DateLeq(start_date, row.date) /\ DateLeq(row.date, end_date)
  IN  SelectSeq(table, InRange)

\* the grouping loop of get_weekly_trends; daily_stats is a dict, kept here
\* as the list of its entries in insertion order
NewDayStats(activity_date) ==
  [date |-> activity_date, toileting |-> 0, diaper |-> 0, nap_sessions |-> 0,
   meals_eaten |-> 0, other_activities |-> 0]
DayIndex(daily_stats, activity_date) ==
  CHOOSE i \in 1..Len(daily_stats) : daily_stats[i].date = activity_date
RECURSIVE DailyStatsLoop(_, _, _)
DailyStatsLoop(activities, n, daily_stats) ==
  IF n > Len(activities) THEN daily_stats
  ELSE
    LET activity == activities[n]
        with_day == IF \E i \in 1..Len(daily_stats) : daily_stats[i].date = activity.date
                    THEN daily_stats
                    ELSE Append(daily_stats, NewDayStats(activity.date))
        d == DayIndex(with_day, activity.date)
        activity_type == activity.activity_type
        counted ==
          IF activity_type = ToiletingType
            THEN [with_day EXCEPT ![d].toileting = @ + 1]
          ELSE IF activity_type = DiaperType
            THEN [with_day EXCEPT ![d].diaper = @ + 1]
          ELSE IF activity_type = NapType
            THEN (IF activity.activity_subtype = Some(<<"s","t","a","r","t">>)
                  THEN [with_day EXCEPT ![d].nap_sessions = @ + 1] ELSE with_day)
          ELSE IF activity_type = MealType
            THEN (IF activity.activity_subtype \in {Some(<<"a","l","l">>), Some(<<"s","o","m","e">>)}
                  THEN [with_day EXCEPT ![d].meals_eaten = @ + 1] ELSE with_day)
          ELSE IF activity_type = OtherType
            THEN [with_day EXCEPT ![d].other_activities = @ + 1]
          ELSE with_day
    IN  DailyStatsLoop(activities, n + 1, counted)

\* daily_breakdown.sort(key=lambda x: x['date']): a stable sort
RECURSIVE SortByDate(_)
SortByDate(entries) ==
  IF entries = <<>> THEN <<>>
  ELSE
    LET sorted == SortByDate(SubSeq(entries, 1, Len(entries) - 1))
        x == entries[Len(entries)]
        k == Cardinality({i \in 1..Len(sorted) : DateLeq(sorted[i].date, x.date)})
    IN  SubSeq(sorted, 1, k) \o <<x>> \o SubSeq(sorted, k + 1, Len(sorted))

\* round(total / num_days, 1), as a number of tenths: the nearest tenth, the
\* even one when two are equally near
RoundTenths(total, num_days) ==
  LET q == (10 * total) \div num_days
      r == (10 * total) % num_days
  IN  IF 2 * r < num_days THEN q
      ELSE IF 2 * r > num_days THEN q + 1
      ELSE IF q % 2 = 0 THEN q ELSE q + 1

RECURSIVE SumOver(_, _, _)
SumOver(daily_stats, n, key) ==
  IF n = 0 THEN 0 ELSE SumOver(daily_stats, n - 1, key) + daily_stats[n][key]

\* _calculate_weekly_averages dividing by one day more than the days present
WeeklyAveragesOverLongerSpan(daily_stats) ==
  IF daily_stats = <<>> THEN [empty |-> TRUE]
  ELSE
    LET num_days == Len(daily_stats) + 1
        avg(key) == RoundTenths(SumOver(daily_stats, Len(daily_stats), key), num_days)
    IN  [empty |-> FALSE,
         toileting |-> avg("toileting"),
         diaper |-> avg("diaper"),
         nap_sessions |-> avg("nap_sessions"),
         meals_eaten |-> avg("meals_eaten"),
         other_activities |-> avg("other_activities"),
         toileting_per_day |-> avg("toileting"),
         diaper_per_day |-> avg("diaper"),
         activities_per_day |-> avg("toileting") + avg("diaper") + avg("nap_sessions")
                                  + avg("meals_eaten") + avg("other_activities")
                                  + avg("toileting") + avg("diaper"),
         nap_duration_minutes |-> 0]

\* DashboardQueries._calculate_weekly_averages; the averages are numbers of
\* tenths, an empty dict is the record with empty set
NoAverages == [empty |-> TRUE]
calculate_weekly_averages(daily_stats) ==
  IF daily_stats = <<>> THEN NoAverages
  ELSE
    LET num_days == Len(daily_stats)
        avg(key) == RoundTenths(SumOver(daily_stats, Len(daily_stats), key), num_days)
    IN  [empty |-> FALSE,
         toileting |-> avg("toileting"),
         diaper |-> avg("diaper"),
         nap_sessions |-> avg("nap_sessions"),
         meals_eaten |-> avg("meals_eaten"),
         other_activities |-> avg("other_activities"),
         toileting_per_day |-> avg("toileting"),
         diaper_per_day |-> avg("diaper"),
         activities_per_day |-> avg("toileting") + avg("diaper") + avg("nap_sessions")
                                  + avg("meals_eaten") + avg("other_activities")
                                  + avg("toileting") + avg("diaper"),
         nap_duration_minutes |-> 0]

\* DashboardQueries.get_weekly_trends
get_weekly_trends(table, start_date, end_date) ==
  LET activities == get_activities_by_date_range(table, start_date, end_date)
      daily_stats == DailyStatsLoop(activities, 1, <<>>)
      daily_breakdown ==
        [i \in 1..Len(daily_stats) |->
           [date |-> daily_stats[i].date,
            total_activities |-> daily_stats[i].toileting + daily_stats[i].diaper
                                   + daily_stats[i].nap_sessions + daily_stats[i].meals_eaten
                                   + daily_stats[i].other_activities,
            toileting_count |-> daily_stats[i].toileting,
            diaper_count |-> daily_stats[i].diaper,
            nap_duration |-> 0]]
  IN  [start_date |-> start_date,
       end_date |-> end_date,
       daily_stats |-> daily_stats,
       daily_breakdown |-> SortByDate(daily_breakdown),
       averages |-> calculate_weekly_averages(daily_stats)]

(***************************************************************************)
(* The database summary of a day and process_messages_with_database.       *)
(* generated_at (the wall clock) is left out of the summary record.        *)
(***************************************************************************)
\* check_message_processed that finds no message processed
CheckNeverProcessed(table, message_id) == FALSE

\* DatabaseClient.check_message_processed
check_message_processed(table, message_id) ==
  \E i \in 1..Len(table) : table[i].source_message_id = message_id

\* DatabaseClient.insert_activities: one row per activity, appended
insert_activities(table, activities, source_message_id) ==
  table \o [k \in 1..Len(activities) |-> db_activity(activities[k], source_message_id)]

\* DatabaseClient.get_daily_activities
get_daily_activities(table, date_str) ==
  LET OfDay(row) == row.date = date_str
  IN  SelectSeq(table, OfDay)

\* the loop of DatabaseClient._count_activities_by_type; .lower() of a NULL
\* subtype raises AttributeError
RECURSIVE DbCountLoop(_, _, _)
DbCountLoop(filtered, n, counts) ==
  IF n > Len(filtered) THEN [raised |-> FALSE, val |-> counts]
  ELSE IF filtered[n].activity_subtype.none THEN Raised
  ELSE
    LET subtype == PyLower(filtered[n].activity_subtype.val)
    IN  DbCountLoop(filtered, n + 1,
          [wet |-> counts.wet + (IF PyContains(subtype, <<"w","e","t">>) THEN 1 ELSE 0),
           dry |-> counts.dry + (IF PyContains(subtype, <<"d","r","y">>) THEN 1 ELSE 0),
           bm |-> counts.bm + (IF PyContains(subtype, <<"b","m">>) THEN 1 ELSE 0)])

\* DatabaseClient._count_activities_by_type
db_count_activities_by_type(activities, activity_type) ==
  LET Keep(a) == a.activity_type = activity_type
  IN  DbCountLoop(SelectSeq(activities, Keep), 1, [wet |-> 0, dry |-> 0, bm |-> 0])

\* the loop of DatabaseClient._get_meal_status: every row is looked at, the
\* slot takes the row's subtype as stored (NULL included)
RECURSIVE DbMealLoop(_, _, _)
DbMealLoop(activities, n, meals) ==
  IF n > Len(activities) THEN meals
  ELSE
    LET activity_name == PyLower(activities[n].activity_name)
        subtype == activities[n].activity_subtype
    IN  IF PyContains(activity_name, <<"a","m"," ","s","n","a","c","k">>)
          THEN DbMealLoop(activities, n + 1, [meals EXCEPT !.am_snack = subtype])
        ELSE IF PyContains(activity_name, <<"l","u","n","c","h">>)
          THEN DbMealLoop(activities, n + 1, [meals EXCEPT !.lunch = subtype])
        ELSE IF PyContains(activity_name, <<"p","m"," ","s","n","a","c","k">>)
          THEN DbMealLoop(activities, n + 1, [meals EXCEPT !.pm_snack = subtype])
        ELSE DbMealLoop(activities, n + 1, meals)

\* DatabaseClient._get_meal_status
db_get_meal_status(activities) ==
  DbMealLoop(activities, 1, [am_snack |-> Some(NoneText), lunch |-> Some(NoneText), pm_snack |-> Some(NoneText)])

\* DatabaseClient._format_date
format_date(date_str) ==
  LET date_obj == strptime(date_str)
  IN  IF date_obj.raised THEN date_str ELSE strftime(date_obj)

\* DatabaseClient.generate_daily_summary_from_db
\* the summary of a day without activities
EmptyDaySummary(date_str) ==
  [raised |-> FALSE,
   date |-> date_str,
   formatted_date |-> format_date(date_str),
   summary |-> [toiletings |-> [wet |-> 0, dry |-> 0, bm |-> 0],
                diapers |-> [wet |-> 0, dry |-> 0, bm |-> 0],
                nap_duration_minutes |-> 0,
                meals |-> [am_snack |-> Some(NoneText), lunch |-> Some(NoneText), pm_snack |-> Some(NoneText)],
                other_activities |-> <<>>],
   raw_activities |-> <<>>]

\* the summary of the activities of a day, given the three computations that
\* may raise
DaySummary(activities, date_str, toileting_counts, diaper_counts, nap_duration) ==
  IF toileting_counts.raised \/ diaper_counts.raised \/ nap_duration.raised THEN Raised
  ELSE [raised |-> FALSE,
        date |-> date_str,
        formatted_date |-> format_date(date_str),
        summary |-> [toiletings |-> toileting_counts.val,
                     diapers |-> diaper_counts.val,
                     nap_duration_minutes |-> nap_duration.val,
                     meals |-> db_get_meal_status(activities),
                     other_activities |-> db_get_other_activities(activities)],
        raw_activities |-> activities]

SummaryOfActivities(activities, date_str) ==
  IF activities = <<>> THEN EmptyDaySummary(date_str)
  ELSE DaySummary(activities, date_str,
                  db_count_activities_by_type(activities, ToiletingType),
                  db_count_activities_by_type(activities, DiaperType),
                  db_calculate_nap_duration(activities))

generate_daily_summary_from_db(table, date_str) ==
  SummaryOfActivities(get_daily_activities(table, date_str), date_str)

\* activity['date'] = date_str
WithDate(activity, date_str) ==
  [time |-> activity.time, activity |-> activity.activity, type |-> activity.type,
   raw_content |-> activity.raw_content, date |-> date_str]

\* the message loop of process_messages_with_database: the store after the
\* first n messages
DatedActivities(extracted, date_str) ==
  [k \in 1..Len(extracted) |-> WithDate(extracted[k], date_str)]
\* the body of the message loop: a processed message is skipped, the
\* activities of another are inserted if there are any
StoreMessage(before, message_id, activities) ==
  IF check_message_processed(before, message_id) THEN before
  ELSE IF activities # <<>> THEN insert_activities(before, activities, message_id)
  ELSE before
RECURSIVE StoreLoop(_, _, _, _)
StoreLoop(table, messages, n, date_str) ==
  IF n = 0 THEN table
  ELSE StoreMessage(StoreLoop(table, messages, n - 1, date_str), messages[n].id,
                    DatedActivities(extract_activities_from_message(messages[n]), date_str))

\* AltitudeParser.process_messages_with_database: the store it leaves and
\* the summary it returns
StoreAndSummary(after, date_str) ==
  [store |-> after, summary |-> generate_daily_summary_from_db(after, date_str)]
process_messages_with_database(table, messages, date_str) ==
  StoreAndSummary(StoreLoop(table, messages, Len(messages), date_str), date_str)

(***************************************************************************)
(* The daily job: process_daily_summary and its collaborators.  What the   *)
(* mail service and the notification channels do is given by the           *)
(* environment of the call.                                                *)
(***************************************************************************)
\* GmailClient._get_next_day: strptime raises ValueError on a bad date
get_next_day(date_str) == strptime(date_str)

\* GmailClient.get_altitude_messages: every exception of the query, of the
\* list request and of a get request is caught and [] is returned
get_altitude_messages(date_str, mailbox, fetch) ==
  IF get_next_day(date_str).raised THEN <<>>
  ELSE IF fetch = "list_fails" THEN <<>>
  ELSE IF fetch = "get_fails" /\ mailbox # <<>> THEN <<>>
  ELSE mailbox

\* NotificationService.send_summary; attempts lists the channels tried
send_summary(channels) ==
  LET email_tried == channels.email_configured
      email_sent == email_tried /\ channels.email_ok
      whatsapp_tried == channels.phone_configured
      sms_tried == whatsapp_tried /\ ~channels.whatsapp_ok
      sms_sent == whatsapp_tried /\ (channels.whatsapp_ok \/ channels.sms_ok)
      attempts == (IF email_tried THEN <<"email">> ELSE <<>>)
                    \o (IF whatsapp_tried THEN <<"whatsapp">> ELSE <<>>)
                    \o (IF sms_tried THEN <<"sms">> ELSE <<>>)
  IN  IF ~channels.format_ok
      THEN [status |-> "failed", email_sent |-> FALSE, sms_sent |-> FALSE, attempts |-> <<>>]
      ELSE [status |-> IF email_sent /\ sms_sent THEN "success"
                       ELSE IF email_sent \/ sms_sent THEN "partial"
                       ELSE "failed",
            email_sent |-> email_sent, sms_sent |-> sms_sent, attempts |-> attempts]

\* AltitudeParser.process_messages of a parser made without a database
process_messages(messages, date_str) == process_messages_legacy(messages, date_str)

\* process_daily_summary
process_daily_summary(date_str, env) ==
  LET messages == get_altitude_messages(date_str, env.mailbox, env.fetch)
      daily_summary == process_messages(messages, date_str)
  IN  IF ~env.auth_ok THEN [status |-> "error", date |-> date_str]
      ELSE IF messages = <<>> THEN [status |-> "no_data", date |-> date_str]
      ELSE IF daily_summary.raised THEN [status |-> "error", date |-> date_str]
      ELSE [status |-> "success", date |-> date_str, summary |-> daily_summary,
            notifications |-> send_summary(env.channels)]

(***************************************************************************)
(* DashboardQueries.get_lifetime_summary.                                  *)
(***************************************************************************)
\* DatabaseClient.get_all_activities
get_all_activities(table) == table

\* one entry per row instead of one per date
DatesSeenPerRow(activities) == 1..Len(activities)

\* dates_seen: the set of the dates of the rows
dates_seen(activities) == {activities[i].date : i \in 1..Len(activities)}

\* min(activity_dates) and max(activity_dates), by text order
MinDate(activities) ==
  CHOOSE d \in {activities[i].date : i \in 1..Len(activities)} :
    \A i \in 1..Len(activities) : DateLeq(d, activities[i].date)
MaxDate(activities) ==
  CHOOSE d \in {activities[i].date : i \in 1..Len(activities)} :
    \A i \in 1..Len(activities) : DateLeq(activities[i].date, d)

\* the durations kept for one date: the i-th start with the i-th stop, the
\* pairs of duration 0 dropped
\* "if duration > 0: nap_durations.append(duration)"
KeepPositive(duration) == IF duration > 0 THEN <<duration>> ELSE <<>>
RECURSIVE PairLoop(_, _, _)
PairLoop(starts, stops, n) ==
  IF n = 0 THEN <<>>
  ELSE
    PairLoop(starts, stops, n - 1) \o KeepPositive(dash_parse_time_duration(starts[n], stops[n]))
DateNapDurations(nap_activities, activity_date) ==
  LET OfDate(a) == a.date = activity_date
      IsStart(a) == a.activity_subtype = Some(<<"s","t","a","r","t">>)
      IsStop(a) == a.activity_subtype = Some(<<"s","t","o","p">>)
      Time(rows) == [k \in 1..Len(rows) |-> rows[k].parsed_time]
      starts == Time(SelectSeq(SelectSeq(nap_activities, OfDate), IsStart))
      stops == Time(SelectSeq(SelectSeq(nap_activities, OfDate), IsStop))
  IN  PairLoop(starts, stops, Min({Len(starts), Len(stops)}))

\* nap_durations: the durations of all dates, the dates in order of their
\* first nap row
RECURSIVE NapDurationsLoop(_, _, _)
NapDurationsLoop(nap_activities, n, done) ==
  IF n > Len(nap_activities) THEN <<>>
  ELSE IF nap_activities[n].date \in done THEN NapDurationsLoop(nap_activities, n + 1, done)
  ELSE DateNapDurations(nap_activities, nap_activities[n].date)
         \o NapDurationsLoop(nap_activities, n + 1, done \cup {nap_activities[n].date})

RECURSIVE SeqSum(_)
SeqSum(s) == IF s = <<>> THEN 0 ELSE s[1] + SeqSum(Tail(s))

NotAvailable == <<"N","/","A">>

\* get_lifetime_summary; avg_nap_duration is the quotient num / den
get_lifetime_summary(table) ==
  LET activities == get_all_activities(table)
      OfType(t) == {i \in 1..Len(activities) : activities[i].activity_type = t}
      IsNap(a) == a.activity_type = NapType
      nap_durations == NapDurationsLoop(SelectSeq(activities, IsNap), 1, {})
      other_activities == {activities[i].activity_name : i \in OfType(OtherType)}
  IN  IF activities = <<>>
      THEN [total_toileting |-> 0, total_diapers |-> 0, total_naps |-> 0,
            total_activities |-> 0, days_tracked |-> 0, unique_other_activities |-> 0,
            first_activity_date |-> NotAvailable, last_activity_date |-> NotAvailable,
            avg_nap_duration |-> [num |-> 0, den |-> 1]]
      ELSE [total_toileting |-> Cardinality(OfType(ToiletingType)),
            total_diapers |-> Cardinality(OfType(DiaperType)),
            total_naps |-> Len(nap_durations),
            total_activities |-> Len(activities),
            days_tracked |-> Cardinality(dates_seen(activities)),
            unique_other_activities |-> Cardinality(other_activities),
            first_activity_date |-> MinDate(activities),
            last_activity_date |-> MaxDate(activities),
            avg_nap_duration |-> IF nap_durations # <<>>
                                 THEN [num |-> SeqSum(nap_durations), den |-> Len(nap_durations)]
                                 ELSE [num |-> 0, den |-> 1]]

(***************************************************************************)
(* DashboardQueries.search_activities.                                     *)
(***************************************************************************)
\* ' '.join of the four fields of a row, lowered; a NULL subtype is in the
\* row as None, which join refuses with TypeError
searchable_text(activity) ==
  IF activity.activity_subtype.none THEN Raised
  ELSE [raised |-> FALSE,
        val |-> PyLower(activity.activity_name \o <<" ">> \o activity.activity_type \o <<" ">>
                        \o activity.activity_subtype.val \o <<" ">> \o activity.raw_content)]

\* the filter loop of search_activities
RECURSIVE SearchLoop(_, _, _, _)
SearchLoop(activities, n, query_lower, matching_activities) ==
  IF n > Len(activities) THEN [raised |-> FALSE, val |-> matching_activities]
  ELSE
    LET text == searchable_text(activities[n])
    IN  IF text.raised THEN Raised
        ELSE SearchLoop(activities, n + 1, query_lower,
               IF PyContains(text.val, query_lower)
               THEN Append(matching_activities, activities[n]) ELSE matching_activities)

\* search_activities; start_date and end_date are optional, now gives the
\* date of the call and the date 30 days before it
search_activities(table, query, start_date, end_date, now) ==
  LET activities ==
        IF ~start_date.none /\ start_date.val # <<>> /\ ~end_date.none /\ end_date.val # <<>>
        THEN get_activities_by_date_range(table, start_date.val, end_date.val)
        ELSE get_activities_by_date_range(table, now.month_ago, now.today)
  IN  SearchLoop(activities, 1, PyLower(query), <<>>)

(***************************************************************************)
(* DashboardQueries.get_nap_analysis.                                      *)
(***************************************************************************)
\* the pair appended whatever its duration is
KeepEveryPair(duration, start) == <<[duration |-> duration, start |-> start]>>

\* "if duration > 0": the duration goes to nap_durations and the start time
\* to nap_start_times
KeepPositivePair(duration, start) ==
  IF duration > 0 THEN <<[duration |-> duration, start |-> start]>> ELSE <<>>

\* the i-th start with the i-th stop of one date
RECURSIVE AnalysisPairLoop(_, _, _)
AnalysisPairLoop(starts, stops, n) ==
  IF n = 0 THEN <<>>
  ELSE AnalysisPairLoop(starts, stops, n - 1)
         \o KeepPositivePair(dash_parse_time_duration(starts[n], stops[n]), starts[n])

\* daily_naps[activity_date]: the start times and the stop times of a date
NapTimesOf(nap_activities, activity_date, subtype) ==
  LET Wanted(a) == a.date = activity_date /\ a.activity_subtype = Some(subtype)
      rows == SelectSeq(nap_activities, Wanted)
  IN  [k \in 1..Len(rows) |-> rows[k].parsed_time]
PairsOfTimes(starts, stops) == AnalysisPairLoop(starts, stops, Min({Len(starts), Len(stops)}))
DateNapPairs(nap_activities, activity_date) ==
  PairsOfTimes(NapTimesOf(nap_activities, activity_date, <<"s","t","a","r","t">>),
               NapTimesOf(nap_activities, activity_date, <<"s","t","o","p">>))

\* the loop over daily_naps.values(): the dates in order of their first nap
\* row
RECURSIVE NapPairsLoop(_, _, _)
NapPairsLoop(nap_activities, n, done) ==
  IF n > Len(nap_activities) THEN <<>>
  ELSE IF nap_activities[n].date \in done THEN NapPairsLoop(nap_activities, n + 1, done)
  ELSE DateNapPairs(nap_activities, nap_activities[n].date)
         \o NapPairsLoop(nap_activities, n + 1, done \cup {nap_activities[n].date})

\* _get_common_times: the distinct times in order of first occurrence,
\* sorted by descending count (a stable sort), the first three of them
RECURSIVE DistinctTimes(_)
DistinctTimes(times) ==
  IF times = <<>> THEN <<>>
  ELSE
    LET front == SubSeq(times, 1, Len(times) - 1)
    IN  IF \E i \in 1..Len(front) : front[i] = times[Len(times)]
        THEN DistinctTimes(front)
        ELSE Append(DistinctTimes(front), times[Len(times)])
TimeCount(times, t) == Cardinality({i \in 1..Len(times) : times[i] = t})
RECURSIVE SortByCount(_, _)
SortByCount(keys, times) ==
  IF keys = <<>> THEN <<>>
  ELSE
    LET sorted == SortByCount(SubSeq(keys, 1, Len(keys) - 1), times)
        x == keys[Len(keys)]
        k == Cardinality({i \in 1..Len(sorted) : TimeCount(times, sorted[i]) >= TimeCount(times, x)})
    IN  SubSeq(sorted, 1, k) \o <<x>> \o SubSeq(sorted, k + 1, Len(sorted))
FirstThree(s) == SubSeq(s, 1, Min({3, Len(s)}))
get_common_times(times) == FirstThree(SortByCount(DistinctTimes(times), times))

\* the record get_nap_analysis returns; the average is the quotient num / den
NapStatistics(nap_durations, nap_start_times) ==
  [total_naps |-> Len(nap_durations),
   average_duration_minutes |-> IF nap_durations # <<>>
                                THEN [num |-> SeqSum(nap_durations), den |-> Len(nap_durations)]
                                ELSE [num |-> 0, den |-> 1],
   longest_nap_minutes |-> IF nap_durations # <<>>
                           THEN Max({nap_durations[k] : k \in 1..Len(nap_durations)}) ELSE 0,
   shortest_nap_minutes |-> IF nap_durations # <<>>
                            THEN Min({nap_durations[k] : k \in 1..Len(nap_durations)}) ELSE 0,
   nap_durations |-> nap_durations,
   common_nap_start_times |-> get_common_times(nap_start_times)]
NapStatisticsOfPairs(pairs) ==
  NapStatistics([k \in 1..Len(pairs) |-> pairs[k].duration], [k \in 1..Len(pairs) |-> pairs[k].start])
NapRows(activities) ==
  LET IsNap(a) == a.activity_type = NapType IN SelectSeq(activities, IsNap)

\* get_nap_analysis
get_nap_analysis(table, start_date, end_date) ==
  NapStatisticsOfPairs(
    NapPairsLoop(NapRows(get_activities_by_date_range(table, start_date, end_date)), 1, {}))

(***************************************************************************)
(* DashboardQueries.get_meal_analysis.  A percentage is a number of tenths *)
(* of a percent.                                                           *)
(***************************************************************************)
MealStatuses == {<<"a","l","l">>, <<"s","o","m","e">>, <<"n","o","n","e">>}
NoMealCounts == [all |-> 0, some |-> 0, none |-> 0]
\* meal_stats[slot][subtype] += 1
CountStatus(counts, subtype) ==
  IF subtype = <<"a","l","l">> THEN [counts EXCEPT !.all = @ + 1]
  ELSE IF subtype = <<"s","o","m","e">> THEN [counts EXCEPT !.some = @ + 1]
  ELSE [counts EXCEPT !.none = @ + 1]

\* the percentages of a slot with one more than its total as divisor
SlotPercentagesOfTotalPlusOne(counts) ==
  [all |-> RoundTenths(100 * counts.all, counts.all + counts.some + counts.none + 1),
   some |-> RoundTenths(100 * counts.some, counts.all + counts.some + counts.none + 1),
   none |-> RoundTenths(100 * counts.none, counts.all + counts.some + counts.none + 1)]

\* round((count / total) * 100, 1) for each status of a slot, 0 if the slot
\* has no events
SlotPercentages(counts) ==
  IF counts.all + counts.some + counts.none > 0
  THEN [all |-> RoundTenths(100 * counts.all, counts.all + counts.some + counts.none),
        some |-> RoundTenths(100 * counts.some, counts.all + counts.some + counts.none),
        none |-> RoundTenths(100 * counts.none, counts.all + counts.some + counts.none)]
  ELSE NoMealCounts

\* one row of the loop over meal_activities, its name and subtype lowered
CountMeal(meal_stats, activity_name, subtype) ==
  IF PyContains(activity_name, <<"a","m"," ","s","n","a","c","k">>) /\ subtype \in MealStatuses
    THEN [meal_stats EXCEPT !.am_snack = CountStatus(@, subtype)]
  ELSE IF PyContains(activity_name, <<"l","u","n","c","h">>) /\ subtype \in MealStatuses
    THEN [meal_stats EXCEPT !.lunch = CountStatus(@, subtype)]
  ELSE IF PyContains(activity_name, <<"p","m"," ","s","n","a","c","k">>) /\ subtype \in MealStatuses
    THEN [meal_stats EXCEPT !.pm_snack = CountStatus(@, subtype)]
  ELSE meal_stats

\* the loop over meal_activities; .lower() of a NULL subtype raises
\* AttributeError
RECURSIVE MealStatsLoop(_, _, _)
MealStatsLoop(meal_activities, n, meal_stats) ==
  IF n > Len(meal_activities) THEN [raised |-> FALSE, val |-> meal_stats]
  ELSE IF meal_activities[n].activity_subtype.none THEN Raised
  ELSE MealStatsLoop(meal_activities, n + 1,
         CountMeal(meal_stats, PyLower(meal_activities[n].activity_name),
                   PyLower(meal_activities[n].activity_subtype.val)))

SlotTotal(counts) == counts.all + counts.some + counts.none
MealAnalysisOf(stats) ==
  IF stats.raised THEN Raised
  ELSE [raised |-> FALSE,
        meal_counts |-> stats.val,
        meal_percentages |-> [am_snack |-> SlotPercentages(stats.val.am_snack),
                              lunch |-> SlotPercentages(stats.val.lunch),
                              pm_snack |-> SlotPercentages(stats.val.pm_snack)],
        total_meals_tracked |-> SlotTotal(stats.val.am_snack) + SlotTotal(stats.val.lunch)
                                  + SlotTotal(stats.val.pm_snack)]
MealRows(activities) ==
  LET IsMeal(a) == a.activity_type = MealType IN SelectSeq(activities, IsMeal)

\* get_meal_analysis
get_meal_analysis(table, start_date, end_date) ==
  MealAnalysisOf(MealStatsLoop(MealRows(get_activities_by_date_range(table, start_date, end_date)), 1,
                               [am_snack |-> NoMealCounts, lunch |-> NoMealCounts, pm_snack |-> NoMealCounts]))

(***************************************************************************)
(* DashboardQueries.get_monthly_summary.                                   *)
(***************************************************************************)
\* f"{n:04d}" and f"{n:02d}" of a number that is not negative
RECURSIVE ZeroPad(_, _)
ZeroPad(text, width) == IF Len(text) >= width THEN text ELSE ZeroPad(<<"0">> \o text, width)

\* '%Y-%m-%d' of a date, and the f-strings that build the first day of a month
IsoDate(year, month, day) ==
  ZeroPad(NumText(year), 4) \o <<"-">> \o ZeroPad(NumText(month), 2) \o <<"-">> \o ZeroPad(NumText(day), 2)

\* the following month taken for the month after December too
NextMonthStartSameYear(year, month) == IsoDate(year, month + 1, 1)

\* the first day of the following month, of the next year after December
NextMonthStart(year, month) ==
  IF month = 12 THEN IsoDate(year + 1, 1, 1) ELSE IsoDate(year, month + 1, 1)

\* date_obj - timedelta(days=1)
DayBefore(date_obj) ==
  IF date_obj.day > 1
    THEN [raised |-> FALSE, year |-> date_obj.year, month |-> date_obj.month, day |-> date_obj.day - 1]
  ELSE IF date_obj.month > 1
    THEN [raised |-> FALSE, year |-> date_obj.year, month |-> date_obj.month - 1,
          day |-> DaysInMonth(date_obj.year, date_obj.month - 1)]
  ELSE [raised |-> FALSE, year |-> date_obj.year - 1, month |-> 12, day |-> 31]

\* end_date: strptime of the first day of the following month (ValueError if
\* it is no date), one day earlier, as text
IsoOf(date_obj) == IsoDate(date_obj.year, date_obj.month, date_obj.day)
EndOfMonth(next_start) ==
  IF next_start.raised THEN Raised ELSE [raised |-> FALSE, val |-> IsoOf(DayBefore(next_start))]

\* type_counts: the count of each activity_type that occurs
MonthTypeCounts(activities) ==
  [t \in {activities[i].activity_type : i \in 1..Len(activities)} |->
     Cardinality({i \in 1..Len(activities) : activities[i].activity_type = t})]

\* daily_activity_counts: a dict, kept as the list of its entries in
\* insertion order
RECURSIVE DailyCountLoop(_, _, _)
DailyCountLoop(activities, n, counts) ==
  IF n > Len(activities) THEN counts
  ELSE IF \E i \in 1..Len(counts) : counts[i].date = activities[n].date
    THEN DailyCountLoop(activities, n + 1,
           [i \in 1..Len(counts) |->
              IF counts[i].date = activities[n].date
              THEN [date |-> counts[i].date, count |-> counts[i].count + 1] ELSE counts[i]])
  ELSE DailyCountLoop(activities, n + 1, Append(counts, [date |-> activities[n].date, count |-> 1]))

\* max(daily_activity_counts.items(), key=lambda x: x[1]): the first entry
\* with the greatest count
BusiestDay(counts) ==
  IF counts = <<>> THEN None
  ELSE Some(counts[Min({i \in 1..Len(counts) : \A j \in 1..Len(counts) : counts[j].count <= counts[i].count})])

RECURSIVE CountSum(_, _)
CountSum(counts, n) == IF n = 0 THEN 0 ELSE CountSum(counts, n - 1) + counts[n].count

\* the record get_monthly_summary returns; the average is the quotient
\* num / den
MonthlyRecord(year, month, activities, daily_activity_counts) ==
  [raised |-> FALSE,
   year |-> year,
   month |-> month,
   total_activities |-> Len(activities),
   activity_type_counts |-> MonthTypeCounts(activities),
   daily_activity_counts |-> daily_activity_counts,
   busiest_day |-> BusiestDay(daily_activity_counts),
   average_daily_activities |->
     IF daily_activity_counts # <<>>
     THEN [num |-> CountSum(daily_activity_counts, Len(daily_activity_counts)),
           den |-> Len(daily_activity_counts)]
     ELSE [num |-> 0, den |-> 1]]
MonthlySummaryOf(year, month, activities) ==
  MonthlyRecord(year, month, activities, DailyCountLoop(activities, 1, <<>>))
MonthlyWindow(table, year, month, start_date, end_date) ==
  IF end_date.raised THEN Raised
  ELSE MonthlySummaryOf(year, month, get_activities_by_date_range(table, start_date, end_date.val))

\* get_monthly_summary
get_monthly_summary(table, year, month) ==
  MonthlyWindow(table, year, month, IsoDate(year, month, 1),
                EndOfMonth(strptime(NextMonthStart(year, month))))

(***************************************************************************)
(* NotificationService.send_summary, step by step.  What each step meets   *)
(* is given by the environment: the formatting of the text returns or      *)
(* raises; the Brevo request returns 200/201, returns another status, or   *)
(* raises; a Twilio request returns a message or raises.  attempts lists   *)
(* the delivery steps made, in order.                                      *)
(***************************************************************************)
\* _send_email_brevo: try ... except Exception: success is False
send_email_brevo(step) == [raised |-> FALSE, success |-> step = "ok"]

\* _send_whatsapp_twilio without its try ... except
SendWhatsappUncaught(step) == [raised |-> step = "raises", success |-> step = "ok"]

\* _send_whatsapp_twilio: try ... except Exception: success is False
send_whatsapp_twilio(step) == [raised |-> FALSE, success |-> step = "ok"]

\* _send_sms_twilio: try ... except Exception: success is False
send_sms_twilio(step) == [raised |-> FALSE, success |-> step = "ok"]

\* the email branch: made if the recipient and the API key are set
EmailBranch(configured, email_result) ==
  IF ~configured THEN [raised |-> FALSE, sent |-> FALSE, attempts |-> <<>>]
  ELSE [raised |-> email_result.raised,
        sent |-> ~email_result.raised /\ email_result.success,
        attempts |-> <<"email">>]

\* the phone branch: made if the recipient and the Twilio client are set;
\* WhatsApp first, SMS if WhatsApp did not succeed
PhoneBranch(configured, whatsapp_result, sms_result) ==
  IF ~configured THEN [raised |-> FALSE, sent |-> FALSE, attempts |-> <<>>]
  ELSE IF whatsapp_result.raised THEN [raised |-> TRUE, sent |-> FALSE, attempts |-> <<"whatsapp">>]
  ELSE IF whatsapp_result.success THEN [raised |-> FALSE, sent |-> TRUE, attempts |-> <<"whatsapp">>]
  ELSE [raised |-> sms_result.raised,
        sent |-> ~sms_result.raised /\ sms_result.success,
        attempts |-> <<"whatsapp", "sms">>]

\* the overall status
OverallStatus(email_sent, sms_sent) ==
  IF email_sent /\ sms_sent THEN "success"
  ELSE IF email_sent \/ sms_sent THEN "partial"
  ELSE "failed"

\* the results dict: an exception inside the try leaves what was set before
\* it and sets the status to failed; none leaves send_summary
SendResults(format_ok, email, phone) ==
  IF ~format_ok
    THEN [raised |-> FALSE, status |-> "failed", email_sent |-> FALSE, sms_sent |-> FALSE,
          attempts |-> <<>>]
  ELSE IF email.raised
    THEN [raised |-> FALSE, status |-> "failed", email_sent |-> FALSE, sms_sent |-> FALSE,
          attempts |-> email.attempts]
  ELSE IF phone.raised
    THEN [raised |-> FALSE, status |-> "failed", email_sent |-> email.sent, sms_sent |-> FALSE,
          attempts |-> email.attempts \o phone.attempts]
  ELSE [raised |-> FALSE, status |-> OverallStatus(email.sent, phone.sent),
        email_sent |-> email.sent, sms_sent |-> phone.sent,
        attempts |-> email.attempts \o phone.attempts]

send_summary_steps(service, delivery) ==
  SendResults(delivery.format = "ok",
              EmailBranch(service.email_configured, send_email_brevo(delivery.email)),
              PhoneBranch(service.phone_configured, send_whatsapp_twilio(delivery.whatsapp),
                          send_sms_twilio(delivery.sms)))

(***************************************************************************)
(* The inputs the calls are made with.                                     *)
(***************************************************************************)
\* every sequence over S of length 1..n
SeqsUpTo(S, n) == UNION {[1..k -> S] : k \in 1..n}

\* sep.join(parts)
RECURSIVE Join(_, _)
Join(parts, sep) ==
  IF Len(parts) = 0 THEN <<>>
  ELSE IF Len(parts) = 1 THEN parts[1]
  ELSE parts[1] \o sep \o Join(Tail(parts), sep)

\* report records "<Field>: <Value> <name> - posted <time>"
RecordPool ==
  {[field |-> <<"T","o","i","l","e","t","i","n","g">>, value |-> <<"W","e","t">>, name |-> <<"K","a","v","i","t","h","a"," ","B","a","r","a","d","o","l">>, time |-> <<"1","0",":","0","0"," ","A","M">>],
   [field |-> <<"L","u","n","c","h">>, value |-> <<"A","l","l">>, name |-> <<"K","a","v","i","t","h","a">>, time |-> <<"1","2",":","1","4"," ","P","M">>],
   [field |-> <<"T","o","i","l","e","t","i","n","g">>, value |-> <<"W","e","t">>, name |-> <<"K","a","v","i","t","h","a">>, time |-> <<"1","2",":","1","5"," ","P","M">>],
   [field |-> <<"N","a","p">>, value |-> <<"S","t","a","r","t">>, name |-> <<"K","a","v","i","t","h","a">>, time |-> <<"1","2",":","4","6"," ","P","M">>],
   [field |-> <<"N","a","p">>, value |-> <<"S","t","o","p">>, name |-> <<"K">>, time |-> <<"0","2",":","5","3"," ","P","M">>],
   [field |-> <<"L","u","n","c","h">>, value |-> <<"S","o","m","e">>, name |-> <<"K">>, time |-> <<"1","1",":","3","0"," ","A","M">>],
   [field |-> <<"D","i","a","p","e","r">>, value |-> <<"D","r","y">>, name |-> <<"K","a","v","i","t","h","a">>, time |-> <<"9",":","0","5"," ","A","M">>],
   [field |-> <<"P","M"," ","S","n","a","c","k">>, value |-> <<"N","o","n","e">>, name |-> <<"K">>, time |-> <<"3",":","1","5"," ","P","M">>]}

RenderRecord(r) ==
  r.field \o <<":", " ">> \o r.value \o <<" ">> \o r.name \o <<" ","-"," ","p","o","s","t","e","d"," ">> \o r.time

\* snippets of consecutive report records
RecordLists == SeqsUpTo(RecordPool, MaxRecords)
SnippetOf(records) == Join([k \in 1..Len(records) |-> RenderRecord(records[k])], <<" ">>)
Snippets == {SnippetOf(records) : records \in RecordLists}

\* lines of a decoded body
LinePool ==
  {<<"T","o","i","l","e","t","i","n","g",":"," ","W","e","t">>,
   <<"T","o","i","l","e","t","i","n","g",":"," ","W","e","t"," ","K","a","v","i","t","h","a"," ","B","a","r","a","d","o","l"," ","-"," ","p","o","s","t","e","d"," ","1","0",":","0","0"," ","A","M">>,
   <<"C","l","a","y"," ","K","a","v","i","t","h","a"," ","-"," ","p","o","s","t","e","d"," ","1","1",":","0","0"," ","A","M">>,
   <<"W","e"," ","r","e","a","d"," ","a"," ","s","t","o","r","y"," ","b","o","o","k">>,
   <<"A","r","t"," ","a","n","d"," ","c","l","a","y">>,
   <<"p","a","r","t","y"," ","t","i","m","e">>,
   <<"N","a","p",":"," ","S","t","a","r","t"," ","-"," ","p","o","s","t","e","d"," ","1","2",":","4","6"," ","P","M">>,
   <<>>}

Bodies == {Join(lines, <<"\n">>) : lines \in SeqsUpTo(LinePool, MaxLines)}

\* a diaper report with the compound value
CompoundDiaperReport == <<"D","i","a","p","e","r",":"," ","W","e","t"," ","+"," ","B","M"," ","K"," ","-"," ","p","o","s","t","e","d"," ","9",":","0","5"," ","A","M">>

Contents == Snippets \cup Bodies \cup {<<>>, CompoundDiaperReport}

Today == <<"2","0","2","4","-","0","1","-","1","5">>
DateTexts == {Today, <<"2","0","2","4","-","1","3","-","4","5">>}

\* event lists handed to the nap computations
NapEventPool ==
  {[time |-> <<"1","2",":","4","6"," ","P","M">>, activity |-> <<"N","a","p">>, type |-> <<"S","t","a","r","t">>, raw_content |-> <<"N","a","p",":"," ","S","t","a","r","t">>, date |-> Today],
   [time |-> <<"0","1",":","3","0"," ","P","M">>, activity |-> <<"N","a","p">>, type |-> <<"S","t","a","r","t">>, raw_content |-> <<"N","a","p",":"," ","S","t","a","r","t">>, date |-> Today],
   [time |-> <<"U","n","k","n","o","w","n">>, activity |-> <<"N","a","p">>, type |-> <<"S","t","a","r","t">>, raw_content |-> <<"N","a","p",":"," ","S","t","a","r","t">>, date |-> Today],
   [time |-> <<"0","2",":","5","3"," ","P","M">>, activity |-> <<"N","a","p">>, type |-> <<"S","t","o","p">>, raw_content |-> <<"N","a","p",":"," ","S","t","o","p">>, date |-> Today],
   [time |-> <<"0","1",":","0","0"," ","P","M">>, activity |-> <<"N","a","p">>, type |-> <<"S","t","o","p">>, raw_content |-> <<"N","a","p",":"," ","S","t","o","p">>, date |-> Today],
   [time |-> <<"U","n","k","n","o","w","n">>, activity |-> <<"N","a","p">>, type |-> <<"S","t","o","p">>, raw_content |-> <<"N","a","p",":"," ","S","t","o","p">>, date |-> Today],
   [time |-> <<"1","0",":","0","0"," ","A","M">>, activity |-> <<"T","o","i","l","e","t","i","n","g">>, type |-> <<"W","e","t">>, raw_content |-> <<"T","o","i","l","e","t","i","n","g",":"," ","W","e","t">>, date |-> Today]}

\* event lists handed to count_activities_by_type
CountEventPool ==
  {[time |-> <<"1","0",":","0","0"," ","A","M">>, activity |-> <<"T","o","i","l","e","t","i","n","g">>, type |-> <<"W","e","t">>, raw_content |-> <<"T","o","i","l","e","t","i","n","g",":"," ","W","e","t">>, date |-> Today],
   [time |-> <<"U","n","k","n","o","w","n">>, activity |-> <<"T","o","i","l","e","t","i","n","g">>, type |-> <<"D","r","y">>, raw_content |-> <<"T","o","i","l","e","t","i","n","g",":"," ","D","r","y">>, date |-> Today],
   [time |-> <<"1","1",":","0","0"," ","A","M">>, activity |-> <<"T","o","i","l","e","t","i","n","g">>, type |-> <<"B","M">>, raw_content |-> <<"T","o","i","l","e","t","i","n","g",":"," ","B","M">>, date |-> Today],
   [time |-> <<"9",":","0","5"," ","A","M">>, activity |-> <<"D","i","a","p","e","r">>, type |-> <<"W","e","t"," ","+"," ","B","M">>, raw_content |-> <<"D","i","a","p","e","r",":"," ","W","e","t"," ","+"," ","B","M">>, date |-> Today],
   [time |-> <<"1",":","0","0"," ","P","M">>, activity |-> <<"D","i","a","p","e","r">>, type |-> <<"w","e","t">>, raw_content |-> <<"D","i","a","p","e","r",":"," ","w","e","t">>, date |-> Today],
   [time |-> <<"1","2",":","4","6"," ","P","M">>, activity |-> <<"N","a","p">>, type |-> <<"S","t","a","r","t">>, raw_content |-> <<"N","a","p",":"," ","S","t","a","r","t">>, date |-> Today],
   [time |-> <<"1","1",":","0","0"," ","A","M">>, activity |-> <<"C","l","a","y">>, type |-> <<>>, raw_content |-> <<"C","l","a","y",":"," ">>, date |-> Today]}

\* pairs of time texts handed to parse_time_duration
DurationTexts ==
  {<<"1","2",":","4","6"," ","P","M">>,
   <<"0","2",":","5","3"," ","P","M">>,
   <<"0","2",":","0","0"," ","P","M">>,
   <<"0","1",":","0","0"," ","P","M">>,
   <<"1","2",":","0","0"," ","A","M">>,
   <<"1","2",":","0","0"," ","P","M">>,
   <<"1","1",":","5","9"," ","p","m">>,
   <<"9",":","0","5"," ","a","m">>,
   <<"U","n","k","n","o","w","n">>,
   <<>>,
   <<"1","3",":","0","0"," ","P","M">>,
   <<"1","0",":","7","5"," ","A","M">>,
   <<"-","1",":","0","0"," ","A","M">>,
   <<"1","0",":","0","0">>}

NoPayload == [kind |-> "none"]
Encoded(text) == [present |-> text # <<>>, valid |-> TRUE, text |-> text]
Undecodable == [present |-> TRUE, valid |-> FALSE, text |-> <<>>]
SinglePart(body) == [kind |-> "single", body |-> body]
MultiPart(parts) == [kind |-> "parts", parts |-> parts]
Part(mimeType, body) == [mimeType |-> mimeType, body |-> body]
Message(id, snippet, payload) == [id |-> id, snippet |-> snippet, payload |-> payload]

\* snippets of the messages that also carry a body
MsgSnippets == {<<>>} \cup {RenderRecord(r) : r \in RecordPool}

\* a snippet that holds a keyword of the vocabulary
KeywordSnippet == <<"T","o","i","l","e","t","i","n","g",":"," ","W","e","t"," ","K"," ","-"," ","p","o","s","t","e","d"," ","1","0",":","0","0"," ","A","M"," ","C","l","a","y"," ","K","a","v","i","t","h","a"," ","-"," ","p","o","s","t","e","d"," ","1","1",":","0","0"," ","A","M">>

\* messages handed to extract_activities_from_message
MessagePool ==
  {Message("m1", s, NoPayload) : s \in Snippets \cup {<<>>}}
  \cup {Message("m1", s, SinglePart(Encoded(b))) : s \in MsgSnippets, b \in Bodies}
  \cup {Message("m1", s, MultiPart(<<Part("text/html", Encoded(s)), Part("text/plain", Encoded(b))>>)) :
          s \in {<<"T","o","i","l","e","t","i","n","g",":"," ","W","e","t"," ","K","a","v","i","t","h","a"," ","B","a","r","a","d","o","l"," ","-"," ","p","o","s","t","e","d"," ","1","0",":","0","0"," ","A","M">>}, b \in {<<"T","o","i","l","e","t","i","n","g",":"," ","W","e","t"," ","K","a","v","i","t","h","a"," ","B","a","r","a","d","o","l"," ","-"," ","p","o","s","t","e","d"," ","1","0",":","0","0"," ","A","M","\n","C","l","a","y"," ","K","a","v","i","t","h","a"," ","-"," ","p","o","s","t","e","d"," ","1","1",":","0","0"," ","A","M">>, <<"T","o","i","l","e","t","i","n","g",":"," ","W","e","t"," ","K","a","v","i","t","h","a"," ","B","a","r","a","d","o","l"," ","-"," ","p","o","s","t","e","d"," ","1","0",":","0","0"," ","A","M">>}}
  \cup {Message("m1", <<"T","o","i","l","e","t","i","n","g",":"," ","W","e","t"," ","K","a","v","i","t","h","a"," ","B","a","r","a","d","o","l"," ","-"," ","p","o","s","t","e","d"," ","1","0",":","0","0"," ","A","M">>, MultiPart(<<Part("text/plain", Undecodable), Part("text/plain", Encoded(<<"T","o","i","l","e","t","i","n","g",":"," ","W","e","t"," ","K","a","v","i","t","h","a"," ","B","a","r","a","d","o","l"," ","-"," ","p","o","s","t","e","d"," ","1","0",":","0","0"," ","A","M","\n","C","l","a","y"," ","K","a","v","i","t","h","a"," ","-"," ","p","o","s","t","e","d"," ","1","1",":","0","0"," ","A","M">>))>>)),
        Message("m1", <<"T","o","i","l","e","t","i","n","g",":"," ","W","e","t"," ","K","a","v","i","t","h","a"," ","B","a","r","a","d","o","l"," ","-"," ","p","o","s","t","e","d"," ","1","0",":","0","0"," ","A","M">>, MultiPart(<<Part("text/html", Encoded(<<"T","o","i","l","e","t","i","n","g",":"," ","W","e","t"," ","K","a","v","i","t","h","a"," ","B","a","r","a","d","o","l"," ","-"," ","p","o","s","t","e","d"," ","1","0",":","0","0"," ","A","M","\n","C","l","a","y"," ","K","a","v","i","t","h","a"," ","-"," ","p","o","s","t","e","d"," ","1","1",":","0","0"," ","A","M">>))>>)),
        Message("m1", <<"T","o","i","l","e","t","i","n","g",":"," ","W","e","t"," ","K","a","v","i","t","h","a"," ","B","a","r","a","d","o","l"," ","-"," ","p","o","s","t","e","d"," ","1","0",":","0","0"," ","A","M">>, SinglePart(Undecodable))}
  \cup {Message("m1", KeywordSnippet, p) :
          p \in {NoPayload, SinglePart(Encoded(KeywordSnippet)), SinglePart(Encoded(<<>>)),
                 SinglePart(Undecodable), MultiPart(<<Part("text/plain", Encoded(KeywordSnippet))>>)}}

\* messages of a day handed to process_messages_legacy
LegacyMessages ==
  {Message("m1", <<"L","u","n","c","h",":"," ","A","l","l"," ","K","a","v","i","t","h","a"," ","-"," ","p","o","s","t","e","d"," ","1","2",":","1","4"," ","P","M">>, NoPayload),
   Message("m2", <<"L","u","n","c","h",":"," ","S","o","m","e"," ","K"," ","-"," ","p","o","s","t","e","d"," ","1","1",":","3","0"," ","A","M">>, NoPayload),
   Message("m3", <<"P","M"," ","S","n","a","c","k",":"," ","N","o","n","e"," ","K"," ","-"," ","p","o","s","t","e","d"," ","3",":","1","5"," ","P","M">>, NoPayload),
   Message("m4", <<"L","u","n","c","h",":"," ","N","o","n","e"," ","K"," ","-"," ","p","o","s","t","e","d"," ","1","2",":","1","4"," ","P","M"," ","A","M"," ","S","n","a","c","k",":"," ","S","o","m","e"," ","K"," ","-"," ","p","o","s","t","e","d"," ","9",":","3","0"," ","A","M">>, NoPayload),
   Message("m5", <<>>, SinglePart(Encoded(<<"L","u","n","c","h",":"," ","S","o","m","e">>))),
   Message("m8", CompoundDiaperReport, NoPayload),
   Message("m6", <<"N","a","p",":"," ","S","t","a","r","t"," ","K","a","v","i","t","h","a"," ","-"," ","p","o","s","t","e","d"," ","1","2",":","4","6"," ","P","M">>, SinglePart(Encoded(<<"N","a","p",":"," ","S","t","a","r","t"," ","K","a","v","i","t","h","a"," ","-"," ","p","o","s","t","e","d"," ","1","2",":","4","6"," ","P","M","\n","C","l","a","y"," ","a","n","d"," ","m","u","s","i","c"," ","-"," ","p","o","s","t","e","d"," ","1",":","0","5"," ","P","M","\n","P","M"," ","S","n","a","c","k",":"," ","A","l","l">>)))}

\* event lists with free-text activities, handed to get_other_activities
OtherEventPool ==
  {[time |-> <<"1","1",":","0","0"," ","A","M">>, activity |-> <<"C","l","a","y">>, type |-> <<>>, raw_content |-> <<"C","l","a","y"," ","K","a","v","i","t","h","a"," ","-"," ","p","o","s","t","e","d"," ","1","1",":","0","0"," ","A","M">>, date |-> Today],
   [time |-> <<"U","n","k","n","o","w","n">>, activity |-> <<"C","l","a","y">>, type |-> <<>>, raw_content |-> <<"C","l","a","y">>, date |-> Today],
   [time |-> <<"1",":","0","5"," ","P","M">>, activity |-> <<"M","u","s","i","c">>, type |-> <<>>, raw_content |-> <<"M","u","s","i","c"," ","a","n","d"," ","d","a","n","c","e">>, date |-> Today],
   [time |-> <<"U","n","k","n","o","w","n">>, activity |-> <<"c","l","a","y">>, type |-> <<>>, raw_content |-> <<"c","l","a","y">>, date |-> Today],
   [time |-> <<"1",":","0","0"," ","P","M">>, activity |-> <<"C","r","a","f","t">>, type |-> <<"P","a","p","e","r">>, raw_content |-> <<"C","r","a","f","t",":"," ","P","a","p","e","r">>, date |-> Today],
   [time |-> <<"1","0",":","0","0"," ","A","M">>, activity |-> <<"T","o","i","l","e","t","i","n","g">>, type |-> <<"W","e","t">>, raw_content |-> <<"T","o","i","l","e","t","i","n","g",":"," ","W","e","t">>, date |-> Today]}

\* the events of a day, handed to generate_daily_summary
SummaryEventPool ==
  {[time |-> <<"1","0",":","0","0"," ","A","M">>, activity |-> <<"T","o","i","l","e","t","i","n","g">>, type |-> <<"W","e","t">>, raw_content |-> <<"T","o","i","l","e","t","i","n","g",":"," ","W","e","t">>, date |-> Today],
   [time |-> <<"9",":","0","5"," ","A","M">>, activity |-> <<"D","i","a","p","e","r">>, type |-> <<"W","e","t"," ","+"," ","B","M">>, raw_content |-> <<"D","i","a","p","e","r",":"," ","W","e","t"," ","+"," ","B","M">>, date |-> Today],
   [time |-> <<"1","1",":","3","0"," ","A","M">>, activity |-> <<"L","u","n","c","h">>, type |-> <<"S","o","m","e">>, raw_content |-> <<"L","u","n","c","h",":"," ","S","o","m","e">>, date |-> Today],
   [time |-> <<"1","2",":","1","4"," ","P","M">>, activity |-> <<"L","u","n","c","h">>, type |-> <<"A","l","l">>, raw_content |-> <<"L","u","n","c","h",":"," ","A","l","l">>, date |-> Today],
   [time |-> <<"1","1",":","0","0"," ","A","M">>, activity |-> <<"C","l","a","y">>, type |-> <<>>, raw_content |-> <<"C","l","a","y"," ","K","a","v","i","t","h","a"," ","-"," ","p","o","s","t","e","d"," ","1","1",":","0","0"," ","A","M">>, date |-> Today]}

\* three consecutive days and the windows asked for
Day1 == Today
Day2 == <<"2","0","2","4","-","0","1","-","1","6">>
Day3 == <<"2","0","2","4","-","0","1","-","1","7">>
Windows == {<<Day1, Day3>>, <<Day1, Day2>>}

\* the rows of one day: a number of toileting rows and at most one other row
Repeat(x, n) == [i \in 1..n |-> x]
ToiletingRow(d) == db_activity([time |-> <<"1","0",":","0","0"," ","A","M">>, activity |-> <<"T","o","i","l","e","t","i","n","g">>, type |-> <<"W","e","t">>, raw_content |-> <<"T","o","i","l","e","t","i","n","g",":"," ","W","e","t">>, date |-> d], "m1")
ExtraRows(d) ==
  {<<>>,
   <<db_activity([time |-> <<"9",":","0","5"," ","A","M">>, activity |-> <<"D","i","a","p","e","r">>, type |-> <<"D","r","y">>, raw_content |-> <<"D","i","a","p","e","r",":"," ","D","r","y">>, date |-> d], "m1")>>,
   <<db_activity([time |-> <<"1","2",":","4","6"," ","P","M">>, activity |-> <<"N","a","p">>, type |-> <<"S","t","a","r","t">>, raw_content |-> <<"N","a","p",":"," ","S","t","a","r","t">>, date |-> d], "m1")>>,
   <<db_activity([time |-> <<"1","1",":","3","0"," ","A","M">>, activity |-> <<"L","u","n","c","h">>, type |-> <<"S","o","m","e">>, raw_content |-> <<"L","u","n","c","h",":"," ","S","o","m","e">>, date |-> d], "m1")>>,
   <<db_activity([time |-> <<"1","1",":","0","0"," ","A","M">>, activity |-> <<"C","l","a","y">>, type |-> <<>>, raw_content |-> <<"C","l","a","y">>, date |-> d], "m1")>>}
ToiletingCounts == {0, 3, 5}
DayRows(d) == {Repeat(ToiletingRow(d), n) \o x : n \in ToiletingCounts, x \in ExtraRows(d)}

\* stores of three days, the second day stored first
TrendStores == {b \o a \o c : a \in DayRows(Day1), b \in DayRows(Day2), c \in DayRows(Day3)}

\* messages handed to process_messages_with_database: two with activities,
\* one without
DbMessages ==
  {m \in LegacyMessages : m.id \in {"m1", "m6"}}
    \cup {Message("m7", <<"S","e","e"," ","y","o","u"," ","t","o","m","o","r","r","o","w">>, NoPayload)}

\* what the collaborators of the daily job do: whether GmailClient() can
\* authenticate, whether the list and get requests succeed, the messages of
\* the day, and the notification channels
FetchOutcomes == {"ok", "list_fails", "get_fails"}
Mailboxes == SeqsUpTo({m \in LegacyMessages : m.id \in {"m1", "m4"}}, MaxMsgs) \cup {<<>>}
ChannelPool ==
  {[format_ok |-> TRUE, email_configured |-> TRUE, phone_configured |-> TRUE,
    email_ok |-> TRUE, whatsapp_ok |-> TRUE, sms_ok |-> TRUE],
   [format_ok |-> TRUE, email_configured |-> TRUE, phone_configured |-> TRUE,
    email_ok |-> FALSE, whatsapp_ok |-> FALSE, sms_ok |-> FALSE]}
Environments ==
  [auth_ok : BOOLEAN, fetch : FetchOutcomes, mailbox : Mailboxes, channels : ChannelPool]

\* the stores the dashboard queries read: rows of three days, in any order
StoreEventPool ==
  {[time |-> <<"1","0",":","0","0"," ","A","M">>, activity |-> <<"T","o","i","l","e","t","i","n","g">>, type |-> <<"W","e","t">>, raw_content |-> <<"T","o","i","l","e","t","i","n","g",":"," ","W","e","t">>, date |-> Day1],
   [time |-> <<"1","2",":","4","6"," ","P","M">>, activity |-> <<"N","a","p">>, type |-> <<"S","t","a","r","t">>, raw_content |-> <<"N","a","p",":"," ","S","t","a","r","t">>, date |-> Day1],
   [time |-> <<"0","2",":","5","3"," ","P","M">>, activity |-> <<"N","a","p">>, type |-> <<"S","t","o","p">>, raw_content |-> <<"N","a","p",":"," ","S","t","o","p">>, date |-> Day1],
   [time |-> <<"0","1",":","3","0"," ","P","M">>, activity |-> <<"N","a","p">>, type |-> <<"S","t","a","r","t">>, raw_content |-> <<"N","a","p",":"," ","S","t","a","r","t">>, date |-> Day2],
   [time |-> <<"0","1",":","0","0"," ","P","M">>, activity |-> <<"N","a","p">>, type |-> <<"S","t","o","p">>, raw_content |-> <<"N","a","p",":"," ","S","t","o","p">>, date |-> Day2],
   [time |-> <<"1","1",":","0","0"," ","A","M">>, activity |-> <<"C","l","a","y">>, type |-> <<>>, raw_content |-> <<"C","l","a","y"," ","K","a","v","i","t","h","a"," ","-"," ","p","o","s","t","e","d"," ","1","1",":","0","0"," ","A","M">>, date |-> Day3],
   [time |-> <<"1","1",":","3","0"," ","A","M">>, activity |-> <<"L","u","n","c","h">>, type |-> <<"S","o","m","e">>, raw_content |-> <<"L","u","n","c","h",":"," ","S","o","m","e">>, date |-> Day2]}
Stores ==
  {[k \in 1..Len(a) |-> db_activity(a[k], "m1")] : a \in SeqsUpTo(StoreEventPool, MaxEvents) \cup {<<>>}}

\* the stores of one event
SingleEventStores == {<<db_activity(e, "m1")>> : e \in StoreEventPool}

\* the searches: the query, the window (absent, or two dates), the day of
\* the call
Queries == {<<"c","l","a","y">>, <<"W","E","T">>, <<"n","a","p",":"," ","s">>}
SearchWindows ==
  {[start_date |-> None, end_date |-> None],
   [start_date |-> Some(Day1), end_date |-> Some(Day3)],
   [start_date |-> Some(Day2), end_date |-> Some(Day2)]}
SearchDays == {[today |-> Day2, month_ago |-> <<"2","0","2","3","-","1","2","-","1","7">>]}

\* stores of one day with two nap starts and two nap stops, in every order
NapDayPool ==
  {[time |-> <<"1","2",":","4","6"," ","P","M">>, activity |-> <<"N","a","p">>, type |-> <<"S","t","a","r","t">>, raw_content |-> <<"N","a","p",":"," ","S","t","a","r","t">>, date |-> Day1],
   [time |-> <<"0","1",":","3","0"," ","P","M">>, activity |-> <<"N","a","p">>, type |-> <<"S","t","a","r","t">>, raw_content |-> <<"N","a","p",":"," ","S","t","a","r","t">>, date |-> Day1],
   [time |-> <<"0","1",":","0","0"," ","P","M">>, activity |-> <<"N","a","p">>, type |-> <<"S","t","o","p">>, raw_content |-> <<"N","a","p",":"," ","S","t","o","p">>, date |-> Day1],
   [time |-> <<"0","2",":","5","3"," ","P","M">>, activity |-> <<"N","a","p">>, type |-> <<"S","t","o","p">>, raw_content |-> <<"N","a","p",":"," ","S","t","o","p">>, date |-> Day1]}
NapStores ==
  {[k \in 1..4 |-> db_activity(p[k], "m1")] :
     p \in {q \in [1..4 -> NapDayPool] : \A i, j \in 1..4 : i # j => q[i] # q[j]}}

\* date texts handed to _format_date
FormatDateTexts ==
  DateTexts \cup {<<>>, <<"2","0","2","4","-","0","2","-","3","0">>, <<"2","0","2","4","-","0","2","-","2","9">>, <<"1","5","/","0","1","/","2","0","2","4">>, <<"2","0","2","4","-","1","-","5">>, <<"2","0","2","4","-","0","1","-","1","5"," ">>}

\* stores of meal reports of two days
MealEventPool ==
  {[time |-> <<"9",":","3","0"," ","A","M">>, activity |-> <<"A","M"," ","S","n","a","c","k">>, type |-> <<"A","l","l">>, raw_content |-> <<"A","M"," ","S","n","a","c","k",":"," ","A","l","l">>, date |-> Day1],
   [time |-> <<"1","1",":","3","0"," ","A","M">>, activity |-> <<"L","u","n","c","h">>, type |-> <<"S","o","m","e">>, raw_content |-> <<"L","u","n","c","h",":"," ","S","o","m","e">>, date |-> Day1],
   [time |-> <<"1","2",":","1","4"," ","P","M">>, activity |-> <<"L","u","n","c","h">>, type |-> <<"A","l","l">>, raw_content |-> <<"L","u","n","c","h",":"," ","A","l","l">>, date |-> Day2],
   [time |-> <<"1","2",":","1","4"," ","P","M">>, activity |-> <<"L","u","n","c","h">>, type |-> <<"N","o","n","e">>, raw_content |-> <<"L","u","n","c","h",":"," ","N","o","n","e">>, date |-> Day1],
   [time |-> <<"3",":","1","5"," ","P","M">>, activity |-> <<"P","M"," ","S","n","a","c","k">>, type |-> <<"N","o","n","e">>, raw_content |-> <<"P","M"," ","S","n","a","c","k",":"," ","N","o","n","e">>, date |-> Day3],
   [time |-> <<"1","0",":","0","0"," ","A","M">>, activity |-> <<"T","o","i","l","e","t","i","n","g">>, type |-> <<"W","e","t">>, raw_content |-> <<"T","o","i","l","e","t","i","n","g",":"," ","W","e","t">>, date |-> Day1]}
MealStores ==
  {[k \in 1..Len(a) |-> db_activity(a[k], "m1")] : a \in SeqsUpTo(MealEventPool, MaxEvents) \cup {<<>>}}

\* stores of events around the ends of months, and the months asked for
MonthEventPool ==
  {[time |-> <<"1","0",":","0","0"," ","A","M">>, activity |-> <<"T","o","i","l","e","t","i","n","g">>, type |-> <<"W","e","t">>, raw_content |-> <<"T","o","i","l","e","t","i","n","g",":"," ","W","e","t">>, date |-> <<"2","0","2","3","-","1","2","-","3","1">>],
   [time |-> <<"1","2",":","4","6"," ","P","M">>, activity |-> <<"N","a","p">>, type |-> <<"S","t","a","r","t">>, raw_content |-> <<"N","a","p",":"," ","S","t","a","r","t">>, date |-> <<"2","0","2","3","-","1","2","-","0","1">>],
   [time |-> <<"9",":","0","5"," ","A","M">>, activity |-> <<"D","i","a","p","e","r">>, type |-> <<"D","r","y">>, raw_content |-> <<"D","i","a","p","e","r",":"," ","D","r","y">>, date |-> <<"2","0","2","4","-","0","1","-","0","1">>],
   [time |-> <<"1","1",":","3","0"," ","A","M">>, activity |-> <<"L","u","n","c","h">>, type |-> <<"S","o","m","e">>, raw_content |-> <<"L","u","n","c","h",":"," ","S","o","m","e">>, date |-> <<"2","0","2","4","-","0","2","-","2","9">>],
   [time |-> <<"1","1",":","0","0"," ","A","M">>, activity |-> <<"C","l","a","y">>, type |-> <<>>, raw_content |-> <<"C","l","a","y"," ","K","a","v","i","t","h","a"," ","-"," ","p","o","s","t","e","d"," ","1","1",":","0","0"," ","A","M">>, date |-> <<"2","0","2","4","-","0","3","-","0","1">>]}
MonthStores ==
  {[k \in 1..Len(a) |-> db_activity(a[k], "m1")] : a \in SeqsUpTo(MonthEventPool, MaxEvents) \cup {<<>>}}
\* the months asked for, as <<year, month>>
MonthsAsked == {<<2023, 12>>, <<2024, 1>>, <<2024, 2>>}

\* the configurations of the notification service and what its steps meet
Services == [email_configured : BOOLEAN, phone_configured : BOOLEAN]
Deliveries ==
  [format : {"ok", "raises"}, email : {"ok", "error", "raises"},
   whatsapp : {"ok", "raises"}, sms : {"ok", "raises"}]

(***************************************************************************)
(* The calls.  A behaviour is one call of one function: Init draws the     *)
(* function and its arguments, the action of that function runs it and     *)
(* sets ret to what it returns.                                            *)
(***************************************************************************)
\* the rows insert_activities stores for the activities of message m1
StoredRows(activities) == [k \in 1..Len(activities) |-> db_activity(activities[k], "m1")]

\* a content and an offset into it: every snippet of one or two records, and
\* the longer snippets of the records with the short name
ClosestRecordLists ==
  {records \in RecordLists :
     Len(records) <= 2 \/ \A k \in 1..Len(records) : records[k].name = <<"K">>}
ClosestArgs ==
  UNION {{[content |-> c, activity_position |-> o] : o \in 0..Len(c)} :
           c \in {SnippetOf(records) : records \in ClosestRecordLists} \cup {<<>>}}

\* the arguments each function is called with
ArgsOf(f) ==
  IF f = "time_to_minutes" THEN
    {[time_str |-> t] : t \in TimeTexts}
  ELSE IF f = "db_time_to_minutes" THEN
    {[time_str |-> t] : t \in TimeTexts}
  ELSE IF f = "dash_time_to_minutes" THEN
    {[time_str |-> t] : t \in TimeTexts}
  ELSE IF f = "parse_time_duration" THEN
    {[start_time |-> s, end_time |-> e] : s \in DurationTexts, e \in DurationTexts}
  ELSE IF f = "find_closest_time" THEN
    ClosestArgs
  ELSE IF f = "extract_from_content" THEN
    {[content |-> c, source |-> s] : c \in Contents, s \in {"snippet", "full"}}
  ELSE IF f = "extract_activities_from_message" THEN
    {[message |-> m] : m \in MessagePool}
  ELSE IF f = "count_activities_by_type" THEN
    {[activities |-> a, activity_name |-> n] : a \in SeqsUpTo(CountEventPool, MaxEvents) \cup {<<>>}, n \in {Toileting, Diaper}}
  ELSE IF f = "calculate_nap_duration" THEN
    {[activities |-> a] : a \in SeqsUpTo(NapEventPool, MaxEvents) \cup {<<>>}}
  ELSE IF f = "db_calculate_nap_duration" THEN
    {[activities |-> StoredRows(a)] : a \in SeqsUpTo(NapEventPool, MaxEvents) \cup {<<>>}}
  ELSE IF f = "calculate_daily_nap_duration" THEN
    {[activities |-> StoredRows(a)] : a \in SeqsUpTo(NapEventPool, MaxEvents) \cup {<<>>}}
  ELSE IF f = "process_messages_legacy" THEN
    {[messages |-> m, date_str |-> d] : m \in SeqsUpTo(LegacyMessages, MaxMsgs) \cup {<<>>}, d \in DateTexts}
  ELSE IF f = "get_other_activities" THEN
    {[activities |-> a] : a \in SeqsUpTo(OtherEventPool, MaxEvents) \cup {<<>>}}
  ELSE IF f = "db_get_other_activities" THEN
    {[activities |-> StoredRows(a)] : a \in SeqsUpTo(OtherEventPool, MaxEvents) \cup {<<>>}}
  ELSE IF f = "generate_daily_summary" THEN
    {[activities |-> a, date_str |-> d] : a \in SeqsUpTo(SummaryEventPool, MaxEvents) \cup {<<>>}, d \in DateTexts}
  ELSE IF f = "get_weekly_trends" THEN
    {[start_date |-> w[1], end_date |-> w[2]] : w \in Windows}
  ELSE IF f = "process_messages_with_database" THEN
    {[messages |-> m, date_str |-> d] : m \in SeqsUpTo(DbMessages, MaxMsgs) \cup {<<>>}, d \in {Day1, Day2}}
  ELSE IF f = "process_daily_summary" THEN
    {[date_str |-> d, env |-> e] : d \in DateTexts, e \in Environments}
  ELSE IF f = "get_lifetime_summary" THEN
    {[all |-> TRUE]}
  ELSE IF f = "search_activities" THEN
    {[query |-> q, start_date |-> w.start_date, end_date |-> w.end_date, now |-> n] : q \in Queries, w \in SearchWindows, n \in SearchDays}
  ELSE IF f = "get_nap_analysis" THEN
    {[start_date |-> w[1], end_date |-> w[2]] : w \in Windows}
  ELSE IF f = "format_date" THEN
    {[date_str |-> d] : d \in FormatDateTexts}
  ELSE IF f = "get_meal_analysis" THEN
    {[start_date |-> w[1], end_date |-> w[2]] : w \in Windows}
  ELSE IF f = "get_monthly_summary" THEN
    {[year |-> p[1], month |-> p[2]] : p \in MonthsAsked}
  ELSE IF f = "send_summary" THEN
    {[service |-> s, delivery |-> d] : s \in Services, d \in Deliveries}
  ELSE {}

Functions ==
  {"time_to_minutes",
   "db_time_to_minutes",
   "dash_time_to_minutes",
   "parse_time_duration",
   "find_closest_time",
   "extract_from_content",
   "extract_activities_from_message",
   "count_activities_by_type",
   "calculate_nap_duration",
   "db_calculate_nap_duration",
   "calculate_daily_nap_duration",
   "process_messages_legacy",
   "get_other_activities",
   "db_get_other_activities",
   "generate_daily_summary",
   "get_weekly_trends",
   "process_messages_with_database",
   "process_daily_summary",
   "get_lifetime_summary",
   "search_activities",
   "get_nap_analysis",
   "format_date",
   "get_meal_analysis",
   "get_monthly_summary",
   "send_summary"}

\* the stores each function is called on
StoresOf(f) ==
  IF f = "get_weekly_trends" THEN TrendStores \cup SingleEventStores
  ELSE IF f = "get_lifetime_summary" THEN Stores \cup NapStores
  ELSE IF f = "get_nap_analysis" THEN Stores \cup NapStores
  ELSE IF f = "get_meal_analysis" THEN MealStores
  ELSE IF f = "get_monthly_summary" THEN MonthStores
  ELSE IF f = "search_activities" THEN Stores
  ELSE {<<>>}

Init ==
  /\ call \in Functions
  /\ args \in ArgsOf(call)
  /\ store \in StoresOf(call)
  /\ pc = "called"
  /\ ret = <<>>

TimeToMinutes ==
  /\ call = "time_to_minutes" /\ pc = "called"
  /\ ret' = time_to_minutes(args.time_str)
  /\ pc' = "returned"
  /\ UNCHANGED <<call, args, store>>

DbTimeToMinutes ==
  /\ call = "db_time_to_minutes" /\ pc = "called"
  /\ ret' = db_time_to_minutes(args.time_str)
  /\ pc' = "returned"
  /\ UNCHANGED <<call, args, store>>

DashTimeToMinutes ==
  /\ call = "dash_time_to_minutes" /\ pc = "called"
  /\ ret' = dash_time_to_minutes(args.time_str)
  /\ pc' = "returned"
  /\ UNCHANGED <<call, args, store>>

ParseTimeDuration ==
  /\ call = "parse_time_duration" /\ pc = "called"
  /\ ret' = parse_time_duration(args.start_time, args.end_time)
  /\ pc' = "returned"
  /\ UNCHANGED <<call, args, store>>

FindClosestTime ==
  /\ call = "find_closest_time" /\ pc = "called"
  /\ ret' = find_closest_time(args.content, args.activity_position, TimePostedFindIter(args.content))
  /\ pc' = "returned"
  /\ UNCHANGED <<call, args, store>>

ExtractFromContent ==
  /\ call = "extract_from_content" /\ pc = "called"
  /\ ret' = extract_from_content(args.content, args.source)
  /\ pc' = "returned"
  /\ UNCHANGED <<call, args, store>>

ExtractActivitiesFromMessage ==
  /\ call = "extract_activities_from_message" /\ pc = "called"
  /\ ret' = extract_activities_from_message(args.message)
  /\ pc' = "returned"
  /\ UNCHANGED <<call, args, store>>

CountActivitiesByType ==
  /\ call = "count_activities_by_type" /\ pc = "called"
  /\ ret' = count_activities_by_type(args.activities, args.activity_name)
  /\ pc' = "returned"
  /\ UNCHANGED <<call, args, store>>

CalculateNapDuration ==
  /\ call = "calculate_nap_duration" /\ pc = "called"
  /\ ret' = calculate_nap_duration(args.activities)
  /\ pc' = "returned"
  /\ UNCHANGED <<call, args, store>>

DbCalculateNapDuration ==
  /\ call = "db_calculate_nap_duration" /\ pc = "called"
  /\ ret' = db_calculate_nap_duration(args.activities)
  /\ pc' = "returned"
  /\ UNCHANGED <<call, args, store>>

DashCalculateDailyNapDuration ==
  /\ call = "calculate_daily_nap_duration" /\ pc = "called"
  /\ ret' = calculate_daily_nap_duration(args.activities)
  /\ pc' = "returned"
  /\ UNCHANGED <<call, args, store>>

ProcessMessagesLegacy ==
  /\ call = "process_messages_legacy" /\ pc = "called"
  /\ ret' = process_messages_legacy(args.messages, args.date_str)
  /\ pc' = "returned"
  /\ UNCHANGED <<call, args, store>>

GetOtherActivities ==
  /\ call = "get_other_activities" /\ pc = "called"
  /\ ret' = get_other_activities(args.activities)
  /\ pc' = "returned"
  /\ UNCHANGED <<call, args, store>>

DbGetOtherActivities ==
  /\ call = "db_get_other_activities" /\ pc = "called"
  /\ ret' = db_get_other_activities(args.activities)
  /\ pc' = "returned"
  /\ UNCHANGED <<call, args, store>>

GenerateDailySummary ==
  /\ call = "generate_daily_summary" /\ pc = "called"
  /\ \E now \in Clock :
       ret' = <<Stamped(generate_daily_summary(args.activities, args.date_str), now)>>
  /\ pc' = "returned"
  /\ UNCHANGED <<call, args, store>>

\* a second call with the same list object, which the first summary holds as
\* its 'raw_activities', and the same date
GenerateDailySummaryAgain ==
  /\ call = "generate_daily_summary" /\ pc = "returned"
  /\ \E now \in Clock :
       LET activities == IF ret[1].raised THEN args.activities ELSE ret[1].raw_activities
       IN  ret' = Append(ret, Stamped(generate_daily_summary(activities, args.date_str), now))
  /\ pc' = "returned_again"
  /\ UNCHANGED <<call, args, store>>

GetWeeklyTrends ==
  /\ call = "get_weekly_trends" /\ pc = "called"
  /\ ret' = get_weekly_trends(store, args.start_date, args.end_date)
  /\ pc' = "returned"
  /\ UNCHANGED <<call, args, store>>

ProcessMessagesWithDatabase ==
  /\ call = "process_messages_with_database" /\ pc = "called"
  /\ LET r == process_messages_with_database(store, args.messages, args.date_str)
     IN  store' = r.store /\ ret' = <<r.summary>>
  /\ pc' = "returned"
  /\ UNCHANGED <<call, args>>

\* a later call, with any messages and date
ProcessMessagesWithDatabaseNext ==
  /\ call = "process_messages_with_database" /\ pc = "returned"
  /\ \E a \in ArgsOf(call) :
       LET r == process_messages_with_database(store, a.messages, a.date_str)
       IN  args' = a /\ store' = r.store /\ ret' = Append(ret, r.summary)
  /\ pc' = "returned_again"
  /\ UNCHANGED call

\* the call before, made once more with the same messages and date
ProcessMessagesWithDatabaseRepeat ==
  /\ call = "process_messages_with_database" /\ pc = "returned_again"
  /\ LET r == process_messages_with_database(store, args.messages, args.date_str)
     IN  store' = r.store /\ ret' = Append(ret, r.summary)
  /\ pc' = "repeated"
  /\ UNCHANGED <<call, args>>

ProcessDailySummary ==
  /\ call = "process_daily_summary" /\ pc = "called"
  /\ ret' = process_daily_summary(args.date_str, args.env)
  /\ pc' = "returned"
  /\ UNCHANGED <<call, args, store>>

GetLifetimeSummary ==
  /\ call = "get_lifetime_summary" /\ pc = "called"
  /\ ret' = get_lifetime_summary(store)
  /\ pc' = "returned"
  /\ UNCHANGED <<call, args, store>>

SearchActivities ==
  /\ call = "search_activities" /\ pc = "called"
  /\ ret' = search_activities(store, args.query, args.start_date, args.end_date, args.now)
  /\ pc' = "returned"
  /\ UNCHANGED <<call, args, store>>

GetNapAnalysis ==
  /\ call = "get_nap_analysis" /\ pc = "called"
  /\ ret' = get_nap_analysis(store, args.start_date, args.end_date)
  /\ pc' = "returned"
  /\ UNCHANGED <<call, args, store>>

FormatDate ==
  /\ call = "format_date" /\ pc = "called"
  /\ ret' = format_date(args.date_str)
  /\ pc' = "returned"
  /\ UNCHANGED <<call, args, store>>

GetMealAnalysis ==
  /\ call = "get_meal_analysis" /\ pc = "called"
  /\ ret' = get_meal_analysis(store, args.start_date, args.end_date)
  /\ pc' = "returned"
  /\ UNCHANGED <<call, args, store>>

GetMonthlySummary ==
  /\ call = "get_monthly_summary" /\ pc = "called"
  /\ ret' = get_monthly_summary(store, args.year, args.month)
  /\ pc' = "returned"
  /\ UNCHANGED <<call, args, store>>

SendSummary ==
  /\ call = "send_summary" /\ pc = "called"
  /\ ret' = send_summary_steps(args.service, args.delivery)
  /\ pc' = "returned"
  /\ UNCHANGED <<call, args, store>>

Next ==
  \/ TimeToMinutes
  \/ DbTimeToMinutes
  \/ DashTimeToMinutes
  \/ ParseTimeDuration
  \/ FindClosestTime
  \/ ExtractFromContent
  \/ ExtractActivitiesFromMessage
  \/ CountActivitiesByType
  \/ CalculateNapDuration
  \/ DbCalculateNapDuration
  \/ DashCalculateDailyNapDuration
  \/ ProcessMessagesLegacy
  \/ GetOtherActivities
  \/ DbGetOtherActivities
  \/ GenerateDailySummary
  \/ GenerateDailySummaryAgain
  \/ GetWeeklyTrends
  \/ ProcessMessagesWithDatabase
  \/ ProcessMessagesWithDatabaseNext
  \/ ProcessMessagesWithDatabaseRepeat
  \/ ProcessDailySummary
  \/ GetLifetimeSummary
  \/ SearchActivities
  \/ GetNapAnalysis
  \/ FormatDate
  \/ GetMealAnalysis
  \/ GetMonthlySummary
  \/ SendSummary

Spec == Init /\ [][Next]_vars

(***************************************************************************)
(* Properties of the time utility.                                         *)
(***************************************************************************)
Returned(f) == pc = "returned" /\ call = f

\* an "H:MM AM/PM" text read by position: one or two hour digits, a colon,
\* two minute digits, one space, the meridiem in any letter case
HourDigits(s) == SubSeq(s, 1, Len(s) - 6)
MinuteDigits(s) == SubSeq(s, Len(s) - 4, Len(s) - 3)
WellFormedTime(s) ==
  /\ Len(s) \in {7, 8}
  /\ AllDigits(HourDigits(s)) /\ DigitsValue(HourDigits(s)) \in 1..12
  /\ s[Len(s) - 5] = ":"
  /\ AllDigits(MinuteDigits(s)) /\ DigitsValue(MinuteDigits(s)) \in 0..59
  /\ s[Len(s) - 2] = " "
  /\ s[Len(s) - 1] \in {"A", "a", "P", "p"}
  /\ s[Len(s)] \in {"M", "m"}
IsPM(s) == s[Len(s) - 1] \in {"P", "p"}

\* minutes since midnight of a well-formed time of day
ClockMinutes(s) ==
  LET h == DigitsValue(HourDigits(s))
      hour24 == IF h = 12 THEN (IF IsPM(s) THEN 12 ELSE 0)
                ELSE IF IsPM(s) THEN h + 12 ELSE h
  IN  hour24 * 60 + DigitsValue(MinuteDigits(s))

TimeCalls == {"time_to_minutes", "db_time_to_minutes", "dash_time_to_minutes"}

\* C1: every copy of time_to_minutes maps a well-formed "H:MM AM/PM" text to
\* its minutes since midnight (12 AM is hour 0, 12 PM is hour 12, other PM
\* hours get +12), so "12:00 AM" = 0, "12:00 PM" = 720, "02:53 PM" = 893; and
\* on every text the three copies return the same value.
C1_TimeToMinutes ==
  (pc = "returned" /\ call \in TimeCalls) =>
    /\ WellFormedTime(args.time_str) =>
         /\ ret = ClockMinutes(args.time_str)
         /\ ret \in 0..1439
    /\ args.time_str = <<"1","2",":","0","0"," ","A","M">> => ret = 0
    /\ args.time_str = <<"1","2",":","0","0"," ","P","M">> => ret = 720
    /\ args.time_str = <<"0","2",":","5","3"," ","P","M">> => ret = 893
    /\ ret = time_to_minutes(args.time_str)
    /\ ret = db_time_to_minutes(args.time_str)
    /\ ret = dash_time_to_minutes(args.time_str)

\* a copy of the function has returned 0 for midnight written in lower case
C1_Witness ==
  /\ Returned("db_time_to_minutes")
  /\ args.time_str = <<"1","2",":","0","0"," ","a","m">>
  /\ ret = 0

\* C2: parse_time_duration(start, end) is max(0, time_to_minutes(end) -
\* time_to_minutes(start)) on every pair of texts: never negative, 0 when the
\* end is earlier than the start, 127 from "12:46 PM" to "02:53 PM".
C2_ParseTimeDuration ==
  Returned("parse_time_duration") =>
    LET diff == time_to_minutes(args.end_time) - time_to_minutes(args.start_time)
    IN  /\ ret >= 0
        /\ ret = (IF diff > 0 THEN diff ELSE 0)
        /\ (WellFormedTime(args.start_time) /\ WellFormedTime(args.end_time)) =>
             ret = (IF ClockMinutes(args.end_time) > ClockMinutes(args.start_time)
                    THEN ClockMinutes(args.end_time) - ClockMinutes(args.start_time)
                    ELSE 0)
        /\ (args.start_time = <<"1","2",":","4","6"," ","P","M">> /\ args.end_time = <<"0","2",":","5","3"," ","P","M">>) => ret = 127
        /\ (args.start_time = <<"0","2",":","0","0"," ","P","M">> /\ args.end_time = <<"0","1",":","0","0"," ","P","M">>) => ret = 0

\* a Stop one hour before its Start has given 0
C2_Witness ==
  /\ Returned("parse_time_duration")
  /\ args.start_time = <<"0","2",":","0","0"," ","P","M">> /\ args.end_time = <<"0","1",":","0","0"," ","P","M">>
  /\ ret = 0

\* C3: time_to_minutes returns 0 for every text that is not a well-formed
\* "H:MM AM/PM" time of day, so its result always lies in 0..1439.
C3_MalformedGivesZero ==
  Returned("time_to_minutes") =>
    /\ ~WellFormedTime(args.time_str) => ret = 0
    /\ ret \in 0..1439

EventsWith(events, activity, type, time) ==
  {i \in 1..Len(events) :
     events[i].activity = activity /\ events[i].type = type /\ events[i].time = time}

\* C5: extracting from a snippet of consecutive report records yields exactly
\* one event per record, each with the category, value and posted time of its
\* own record.
C5_OneEventPerRecord ==
  (Returned("extract_from_content") /\ args.source = "snippet") =>
    \A records \in RecordLists :
      SnippetOf(records) = args.content =>
        /\ Len(ret) = Len(records)
        /\ \A r \in RecordPool :
             Cardinality(EventsWith(ret, r.field, r.value, r.time))
               = Cardinality({k \in 1..Len(records) : records[k] = r})

\* C6: extract_activities_from_message returns the snippet events first and
\* unfiltered, then exactly the body events whose (category, subtype,
\* timestamp) no snippet event has: body events are filtered against the
\* snippet events only.
C6_MergeAgainstSnippetOnly ==
  Returned("extract_activities_from_message") =>
    LET snippet == args.message.snippet
        body == get_full_body_content(args.message)
        short == extract_from_content(snippet, "snippet")
        long == IF body # <<>> /\ body # snippet THEN extract_from_content(body, "full") ELSE <<>>
        Fresh(e) == EventsWith(short, e.activity, e.type, e.time) = {}
    IN  ret = short \o SelectSeq(long, Fresh)

(***************************************************************************)
(* Properties of the daily aggregation.                                    *)
(***************************************************************************)
\* C7: count_activities_by_type(events, C) gives, for each of wet, dry and
\* bm, the number of events of category C whose lowered subtype contains it;
\* a single "Wet + BM" event of category C gives wet 1, dry 0, bm 1.
C7_CountBySubtype ==
  Returned("count_activities_by_type") =>
    LET With(token) == {i \in 1..Len(args.activities) :
                          /\ args.activities[i].activity = args.activity_name
                          /\ PyContains(PyLower(args.activities[i].type), token)}
    IN  /\ ret.wet = Cardinality(With(<<"w","e","t">>))
        /\ ret.dry = Cardinality(With(<<"d","r","y">>))
        /\ ret.bm = Cardinality(With(<<"b","m">>))
        /\ (/\ Len(args.activities) = 1
            /\ args.activities[1].activity = args.activity_name
            /\ args.activities[1].type = <<"W","e","t"," ","+"," ","B","M">>)
             => ret = [wet |-> 1, dry |-> 0, bm |-> 1]

\* one "Wet + BM" diaper among other events has raised wet and bm, not dry
C7_Witness ==
  /\ Returned("count_activities_by_type")
  /\ args.activity_name = Diaper
  /\ Len(args.activities) > 1
  /\ Cardinality({i \in 1..Len(args.activities) : args.activities[i].type = <<"W","e","t"," ","+"," ","B","M">>}) = 1
  /\ \E i \in 1..Len(args.activities) : args.activities[i].activity = Toileting
  /\ ret = [wet |-> 1, dry |-> 0, bm |-> 1]

\* the nap events of a day as the three daily computations receive them:
\* activities of the parser, rows of the store
IsRowCall == call \in {"db_calculate_nap_duration", "calculate_daily_nap_duration"}
NapKind(a) ==
  IF IsRowCall
  THEN (IF a.activity_type = NapType /\ ~a.activity_subtype.none THEN a.activity_subtype.val ELSE <<>>)
  ELSE (IF a.activity = Nap THEN PyLower(a.type) ELSE <<>>)
NapTime(a) == IF IsRowCall THEN a.parsed_time ELSE a.time
Starts == {i \in 1..Len(args.activities) : NapKind(args.activities[i]) = <<"s","t","a","r","t">>}
Stops == {i \in 1..Len(args.activities) : NapKind(args.activities[i]) = <<"s","t","o","p">>}
NapCalls == {"calculate_nap_duration", "db_calculate_nap_duration", "calculate_daily_nap_duration"}

\* minutes from one time text to another, clamped at 0
Clamped(start, end) ==
  IF time_to_minutes(end) > time_to_minutes(start)
  THEN time_to_minutes(end) - time_to_minutes(start)
  ELSE 0

\* C8: each daily nap computation uses the first Nap Start and the first Nap
\* Stop of the list and ignores every later one (stated for lists whose nap
\* events all carry a time).
C8_FirstStartFirstStop ==
  (/\ pc = "returned" /\ call \in NapCalls
   /\ Starts # {} /\ Stops # {}
   /\ \A i \in Starts \cup Stops : NapTime(args.activities[i]) # Unknown) =>
    LET first == Clamped(NapTime(args.activities[Min(Starts)]), NapTime(args.activities[Min(Stops)]))
    IN  IF call = "db_calculate_nap_duration"
        THEN ~ret.raised /\ ret.val = first
        ELSE ret = first

\* C9: the parser's and the dashboard's daily nap duration is 0 when the day
\* has no Nap Start, no Nap Stop, or the Start or Stop the computation uses
\* (the parser's last ones, the dashboard's first ones) is "Unknown".
C9_UnknownGivesZero ==
  (pc = "returned" /\ call \in {"calculate_nap_duration", "calculate_daily_nap_duration"}) =>
    LET used(S) == IF IsRowCall THEN Min(S) ELSE Max(S)
    IN  (\/ Starts = {} \/ Stops = {}
         \/ NapTime(args.activities[used(Starts)]) = Unknown
         \/ NapTime(args.activities[used(Stops)]) = Unknown) => ret = 0

\* C10: the summary of process_messages_legacy folds the extracted events in
\* ascending time_to_minutes order, "Unknown" as minute 0 and equal times in
\* extraction order; each meal slot holds the status of its last event in
\* that order, "None" when it has no event.
C10_LegacyMealsLastInTimeOrder ==
  (Returned("process_messages_legacy") /\ ~ret.raised) =>
    LET ev == ExtractAll(args.messages, Len(args.messages))
        key(i) == IF ev[i].time = Unknown THEN 0 ELSE time_to_minutes(ev[i].time)
        Before(j, i) == key(j) < key(i) \/ (key(j) = key(i) /\ j < i)
        rank(i) == Cardinality({j \in 1..Len(ev) : Before(j, i)}) + 1
        SlotEvents(name) == {i \in 1..Len(ev) : ev[i].activity = name}
        Status(name) ==
          IF SlotEvents(name) = {} THEN NoneText
          ELSE ev[CHOOSE i \in SlotEvents(name) : \A j \in SlotEvents(name) \ {i} : Before(j, i)].type
    IN  /\ Len(ret.raw_activities) = Len(ev)
        /\ \A i \in 1..Len(ev) : ret.raw_activities[rank(i)] = ev[i]
        /\ ret.summary.meals.am_snack = Status(AMSnack)
        /\ ret.summary.meals.lunch = Status(Lunch)
        /\ ret.summary.meals.pm_snack = Status(PMSnack)

\* two lunch events were extracted latest-first and the status of the one
\* with the later time, extracted first, is the day's lunch status
C10_Witness ==
  /\ Returned("process_messages_legacy") /\ ~ret.raised
  /\ LET ev == ExtractAll(args.messages, Len(args.messages))
     IN  \E i, j \in 1..Len(ev) :
           /\ i < j
           /\ ev[i].activity = Lunch /\ ev[j].activity = Lunch
           /\ time_to_minutes(ev[i].time) > time_to_minutes(ev[j].time)
           /\ ev[i].type # ev[j].type
           /\ ret.summary.meals.lunch = ev[i].type

(***************************************************************************)
(* Properties of the other-activities list.                                *)
(***************************************************************************)
\* the label and the subtype of the k-th event handed to the call, an
\* activity of the parser or a stored row
OtherName(k) ==
  IF call = "db_get_other_activities" THEN args.activities[k].activity_name
  ELSE args.activities[k].activity
OtherSubtype(k) ==
  IF call = "db_get_other_activities"
  THEN (IF args.activities[k].activity_subtype.none THEN <<>> ELSE args.activities[k].activity_subtype.val)
  ELSE args.activities[k].type
\* "label: subtype", or "label" when the subtype is empty
OtherEntry(k) ==
  IF OtherSubtype(k) = <<>> THEN OtherName(k)
  ELSE OtherName(k) \o <<":", " ">> \o OtherSubtype(k)
\* the free-text events, and those of them whose entry no earlier one has
OtherEvents == {k \in 1..Len(args.activities) : OtherName(k) \notin standard_activities}
FirstOthers == {k \in OtherEvents : \A j \in OtherEvents : j < k => OtherEntry(j) # OtherEntry(k)}

\* C11: the other-activities list of the parser and of the database client
\* holds, for every event outside the six fixed fields, "label: subtype", or
\* "label" alone when the subtype is empty, each entry once, in order of
\* first occurrence.
C11_OtherActivities ==
  (pc = "returned" /\ call \in {"get_other_activities", "db_get_other_activities"}) =>
    /\ Len(ret) = Cardinality(FirstOthers)
    /\ \A k \in FirstOthers :
         ret[Cardinality({j \in FirstOthers : j <= k})] = OtherEntry(k)

InWindow == {i \in 1..Len(store) :
               DateLeq(args.start_date, store[i].date) /\ DateLeq(store[i].date, args.end_date)}
PopulatedDates == {store[i].date : i \in InWindow}
CategoryTotal(key) ==
  Cardinality({i \in InWindow :
     LET row == store[i]
     IN  \/ key = "toileting" /\ row.activity_type = ToiletingType
         \/ key = "diaper" /\ row.activity_type = DiaperType
         \/ key = "nap_sessions" /\ row.activity_type = NapType /\ row.activity_subtype = Some(<<"s","t","a","r","t">>)
         \/ key = "meals_eaten" /\ row.activity_type = MealType
              /\ row.activity_subtype \in {Some(<<"a","l","l">>), Some(<<"s","o","m","e">>)}
         \/ key = "other_activities" /\ row.activity_type = OtherType})
CategoryKeys == {"toileting", "diaper", "nap_sessions", "meals_eaten", "other_activities"}

\* C13 as stated: each window average is the category total divided by the
\* number of distinct dates with an event in the window (the averages of the
\* model are numbers of tenths), and a window with no event has no averages.
C13_ExactMeanOverPopulatedDays ==
  Returned("get_weekly_trends") =>
    IF PopulatedDates = {} THEN ret.averages = NoAverages
    ELSE /\ ~ret.averages.empty
         /\ \A key \in CategoryKeys :
              ret.averages[key] * Cardinality(PopulatedDates) = 10 * CategoryTotal(key)
         /\ ret.averages.toileting_per_day = ret.averages.toileting
         /\ ret.averages.diaper_per_day = ret.averages.diaper

\* the averages against the number of populated days and the totals by
\* category, to the nearest tenth
RoundedMeans(days, total) ==
  IF days = 0 THEN ret.averages = NoAverages
  ELSE /\ ~ret.averages.empty
       /\ \A key \in CategoryKeys : 2 * Abs(10 * total[key] - ret.averages[key] * days) <= days
       /\ ret.averages.toileting_per_day = ret.averages.toileting
       /\ ret.averages.diaper_per_day = ret.averages.diaper
\* C13: each window average is the category total divided by the number of
\* distinct dates with an event in the window, never by the calendar length
\* of the window, and rounded to the nearest tenth; a window with no event
\* has an empty averages record.
C13_MeanOverPopulatedDays ==
  Returned("get_weekly_trends") =>
    RoundedMeans(Cardinality(PopulatedDates), [key \in CategoryKeys |-> CategoryTotal(key)])

\* a window of three days of which two have events, 5 and 3 toileting
\* events: toileting_per_day is 4.0
C13_Witness ==
  /\ Returned("get_weekly_trends")
  /\ args.start_date = Day1 /\ args.end_date = Day3
  /\ Cardinality(PopulatedDates) = 2
  /\ CategoryTotal("toileting") = 8
  /\ \E i \in InWindow : store[i].activity_type # ToiletingType
  /\ ret.averages.toileting_per_day = 40

(***************************************************************************)
(* Properties of process_messages_with_database.                           *)
(***************************************************************************)
\* the rows stored for a message identifier, in stored order
RowsOf(table, id) ==
  LET Mine(row) == row.source_message_id = id
  IN  SelectSeq(table, Mine)
\* the rows one insertion of the message's events for date d makes
OneInsertion(m, d) ==
  LET extracted == extract_activities_from_message(m)
  IN  [k \in 1..Len(extracted) |-> db_activity(WithDate(extracted[k], d), m.id)]
\* every message has no row, or the rows of one insertion of its events
StoredOnce(table) ==
  \A m \in DbMessages :
    \/ RowsOf(table, m.id) = <<>>
    \/ \E d \in {Day1, Day2} : RowsOf(table, m.id) = OneInsertion(m, d)

FetchSucceeded ==
  /\ args.env.auth_ok
  /\ ~strptime(args.date_str).raised
  /\ args.env.fetch = "ok" \/ (args.env.fetch = "get_fails" /\ args.env.mailbox = <<>>)

\* C15: process_daily_summary returns 'no_data' only when the mail fetch
\* succeeded and returned no message, and 'error', never 'no_data' or
\* 'success', when the mail fetch failed.
C15_NoDataIsNotAnError ==
  Returned("process_daily_summary") =>
    /\ ret.status = "no_data" => (FetchSucceeded /\ args.env.mailbox = <<>>)
    /\ ~FetchSucceeded => ret.status = "error"

\* C16: get_lifetime_summary of an empty history has 0 for every count and
\* for the average nap duration and "N/A" for both dates; of a history with
\* events, first_activity_date <= last_activity_date, both are dates of
\* events that bound every event's date, and days_tracked is the number of
\* distinct dates with an event.
C16_LifetimeSummary ==
  Returned("get_lifetime_summary") =>
    IF store = <<>>
    THEN /\ ret.total_toileting = 0 /\ ret.total_diapers = 0 /\ ret.total_naps = 0
         /\ ret.total_activities = 0 /\ ret.days_tracked = 0 /\ ret.unique_other_activities = 0
         /\ ret.avg_nap_duration.num = 0
         /\ ret.first_activity_date = <<"N","/","A">> /\ ret.last_activity_date = <<"N","/","A">>
    ELSE /\ DateLeq(ret.first_activity_date, ret.last_activity_date)
         /\ \E i \in 1..Len(store) : store[i].date = ret.first_activity_date
         /\ \E i \in 1..Len(store) : store[i].date = ret.last_activity_date
         /\ \A i \in 1..Len(store) :
              DateLeq(ret.first_activity_date, store[i].date) /\ DateLeq(store[i].date, ret.last_activity_date)
         /\ ret.days_tracked = Cardinality({store[i].date : i \in 1..Len(store)})
         /\ ret.days_tracked <= ret.total_activities

\* a history of three events on two dates, the later date stored first
C16_Witness ==
  /\ Returned("get_lifetime_summary")
  /\ Len(store) = 3 /\ ret.days_tracked = 2
  /\ store[1].date = ret.last_activity_date
  /\ store[2].date = ret.first_activity_date
  /\ ret.first_activity_date # ret.last_activity_date

\* C17: search_activities with a window returns exactly the stored events of
\* the window whose category, subtype, label or raw text contains the query
\* regardless of letter case, in stored order, and never raises for events
\* that insert_activities can have stored, the Other events without a
\* subtype among them.
SearchField(text, query) == PyContains(PyLower(text), PyLower(query))
SearchMatches(row, query) ==
  \/ SearchField(row.activity_type, query)
  \/ (~row.activity_subtype.none /\ SearchField(row.activity_subtype.val, query))
  \/ SearchField(row.activity_name, query)
  \/ SearchField(row.raw_content, query)
C17_SearchNeverRaises ==
  (Returned("search_activities") /\ ~args.start_date.none) =>
    LET Wanted(row) == /\ DateLeq(args.start_date.val, row.date)
                       /\ DateLeq(row.date, args.end_date.val)
                       /\ SearchMatches(row, args.query)
    IN  /\ ~ret.raised
        /\ ret.val = SelectSeq(store, Wanted)

\* C18: the events extracted from a snippet never include an Other
\* activity, each of them being a match of one of the six fixed-field
\* patterns, and a message whose body is absent, empty or equal to the
\* snippet yields fixed-field events only.
FixedFieldNames == {Toileting, Diaper, Nap, AMSnack, Lunch, PMSnack}
FixedFieldOnly(activities) ==
  \A i \in 1..Len(activities) :
    /\ activities[i].activity \in FixedFieldNames
    /\ activities[i].type # <<>>
BodyOf(message) == get_full_body_content(message)
C18_SnippetHasNoOtherActivity ==
  /\ (Returned("extract_from_content") /\ args.source = "snippet") => FixedFieldOnly(ret)
  /\ (/\ Returned("extract_activities_from_message")
      /\ BodyOf(args.message) \in {<<>>, args.message.snippet}) => FixedFieldOnly(ret)

\* a message whose snippet holds the keyword clay as a word and whose body
\* is the snippet again: the Toileting event alone is extracted
C18_Witness ==
  /\ Returned("extract_activities_from_message")
  /\ args.message.payload.kind = "single"
  /\ BodyOf(args.message) = args.message.snippet
  /\ WholeWordIn(args.message.snippet, <<"c","l","a","y">>)
  /\ Len(ret) = 1

\* C19: the report "Diaper: Wet + BM" is extracted as one Diaper event whose
\* subtype is the compound "Wet + BM", and the daily summary built from it
\* counts 1 wet and 1 bm diaper.
C19_CompoundDiaperValue ==
  /\ (Returned("extract_from_content") /\ args.content = CompoundDiaperReport) =>
       /\ Len(ret) = 1
       /\ ret[1].activity = Diaper
       /\ ret[1].type = <<"W","e","t"," ","+"," ","B","M">>
  /\ (/\ Returned("process_messages_legacy")
      /\ Len(args.messages) = 1 /\ args.messages[1].snippet = CompoundDiaperReport
      /\ ~ret.raised) =>
       /\ ret.summary.diapers.wet = 1
       /\ ret.summary.diapers.bm = 1

\* C20: in the keyword scan of a full body, a keyword of the vocabulary
\* produces an Other event exactly when some non-empty line contains it as a
\* whole word; the event is then emitted exactly once, built from the first
\* such line (label the capitalised keyword, empty subtype, raw text the
\* line), and a keyword that no line contains as a whole word produces none.
ScannedLines(content) ==
  LET lines == PySplitOn(content, "\n")
      NonEmpty(line) == line # <<>>
  IN  SelectSeq([n \in 1..Len(lines) |-> PyStrip(lines[n])], NonEmpty)
KeywordLines(content, keyword) ==
  LET Holds(line) == WholeWordIn(line, keyword)
  IN  SelectSeq(ScannedLines(content), Holds)
KeywordEvents(activities, keyword) ==
  {i \in 1..Len(activities) :
     activities[i].activity = PyTitle(keyword) /\ activities[i].type = <<>>}
C20_KeywordOncePerWholeWord ==
  (Returned("extract_from_content") /\ args.source = "full") =>
    \A k \in 1..Len(educational_keywords) :
      LET keyword == educational_keywords[k]
          lines == KeywordLines(args.content, keyword)
          events == KeywordEvents(ret, keyword)
      IN  IF lines = <<>> THEN events = {}
          ELSE /\ Cardinality(events) = 1
               /\ \A i \in events : ret[i].raw_content = lines[1]

\* C21: get_weekly_trends returns one daily_breakdown record for each date
\* with an event in the window, in ascending date order; total_activities is
\* the number of events stored for that date, toileting_count and
\* diaper_count are the numbers of its toileting and diaper events, and
\* nap_duration is 0.
EventsOfDate(d) == {i \in InWindow : store[i].date = d}
EventsOfDateAndType(d, type) == {i \in EventsOfDate(d) : store[i].activity_type = type}
C21_DailyBreakdown ==
  Returned("get_weekly_trends") =>
    LET daily_breakdown == ret.daily_breakdown
    IN  /\ {daily_breakdown[k].date : k \in 1..Len(daily_breakdown)} = PopulatedDates
        /\ Len(daily_breakdown) = Cardinality(PopulatedDates)
        /\ \A k \in 1..(Len(daily_breakdown) - 1) :
             DateLess(daily_breakdown[k].date, daily_breakdown[k + 1].date, 1)
        /\ \A k \in 1..Len(daily_breakdown) :
             /\ daily_breakdown[k].total_activities = Cardinality(EventsOfDate(daily_breakdown[k].date))
             /\ daily_breakdown[k].toileting_count
                  = Cardinality(EventsOfDateAndType(daily_breakdown[k].date, ToiletingType))
             /\ daily_breakdown[k].diaper_count
                  = Cardinality(EventsOfDateAndType(daily_breakdown[k].date, DiaperType))
             /\ daily_breakdown[k].nap_duration = 0

\* C22: get_nap_analysis pairs, per date, the i-th Nap Start with the i-th
\* Nap Stop for i up to min(#starts, #stops) and keeps the pairs whose
\* clamped duration is greater than 0; total_naps is the number of kept
\* pairs, longest the maximum, shortest the minimum and average sum / count
\* of their durations, all 0 when nothing is kept; every listed duration is
\* positive and shortest <= average <= longest.
NapTimesInWindow(d, subtype) ==
  LET Wanted(row) == /\ DateLeq(args.start_date, row.date) /\ DateLeq(row.date, args.end_date)
                     /\ row.date = d /\ row.activity_type = NapType
                     /\ row.activity_subtype = Some(subtype)
      rows == SelectSeq(store, Wanted)
  IN  [k \in 1..Len(rows) |-> rows[k].parsed_time]
PairDuration(p) ==
  dash_parse_time_duration(NapTimesInWindow(p[1], <<"s","t","a","r","t">>)[p[2]], NapTimesInWindow(p[1], <<"s","t","o","p">>)[p[2]])
KeptPairs ==
  {p \in UNION {{<<d, i>> : i \in 1..Min({Len(NapTimesInWindow(d, <<"s","t","a","r","t">>)),
                                          Len(NapTimesInWindow(d, <<"s","t","o","p">>))})} : d \in PopulatedDates} :
     PairDuration(p) > 0}
RECURSIVE SumOfPairs(_, _)
SumOfPairs(S, duration) ==
  IF S = {} THEN 0
  ELSE LET p == CHOOSE x \in S : TRUE IN duration[p] + SumOfPairs(S \ {p}, duration)
\* the returned statistics against the kept pairs and their durations
NapAnalysisOfPairs(kept, duration) ==
  /\ ret.total_naps = Cardinality(kept)
  /\ Len(ret.nap_durations) = Cardinality(kept)
  /\ \A k \in 1..Len(ret.nap_durations) : ret.nap_durations[k] > 0
  /\ \A p \in kept :
       Cardinality({k \in 1..Len(ret.nap_durations) : ret.nap_durations[k] = duration[p]})
         = Cardinality({q \in kept : duration[q] = duration[p]})
  /\ IF kept = {}
     THEN /\ ret.longest_nap_minutes = 0 /\ ret.shortest_nap_minutes = 0
          /\ ret.average_duration_minutes.num = 0
     ELSE /\ ret.longest_nap_minutes = Max({duration[p] : p \in kept})
          /\ ret.shortest_nap_minutes = Min({duration[p] : p \in kept})
          /\ ret.average_duration_minutes.num = SumOfPairs(kept, duration)
          /\ ret.average_duration_minutes.den = Cardinality(kept)
          /\ ret.shortest_nap_minutes * Cardinality(kept) <= ret.average_duration_minutes.num
          /\ ret.average_duration_minutes.num <= ret.longest_nap_minutes * Cardinality(kept)
DurationsOf(kept) == [p \in kept |-> PairDuration(p)]
NapAnalysisOfKept(kept) == NapAnalysisOfPairs(kept, DurationsOf(kept))
\* C22: the statistics get_nap_analysis returns are those of the pairs of
\* its window kept by the rule above.
C22_NapAnalysis ==
  Returned("get_nap_analysis") => NapAnalysisOfKept(KeptPairs)

\* one day with the starts 12:46 PM, 01:30 PM and the stops 01:00 PM,
\* 02:53 PM in that order: the naps of 14 and 83 minutes
C22_Witness ==
  /\ Returned("get_nap_analysis")
  /\ ret.total_naps = 2
  /\ ret.shortest_nap_minutes = 14
  /\ ret.longest_nap_minutes = 83

\* C23: the lifetime total of completed naps pairs the first Nap Start with
\* the first Nap Stop of each day, as the daily aggregator does, so each date
\* contributes at most one nap to total_naps and to avg_nap_duration, and
\* total_naps never exceeds days_tracked.
StoredDates == {store[i].date : i \in 1..Len(store)}
StoredNapTimes(d, subtype) ==
  LET Wanted(row) == /\ row.date = d /\ row.activity_type = NapType
                     /\ row.activity_subtype = Some(subtype)
      rows == SelectSeq(store, Wanted)
  IN  [k \in 1..Len(rows) |-> rows[k].parsed_time]
FirstPairDuration(d) ==
  IF StoredNapTimes(d, <<"s","t","a","r","t">>) # <<>> /\ StoredNapTimes(d, <<"s","t","o","p">>) # <<>>
  THEN dash_parse_time_duration(StoredNapTimes(d, <<"s","t","a","r","t">>)[1], StoredNapTimes(d, <<"s","t","o","p">>)[1])
  ELSE 0
DatesWithNap == {d \in StoredDates : FirstPairDuration(d) > 0}
RECURSIVE SumOfFirstPairs(_)
SumOfFirstPairs(S) ==
  IF S = {} THEN 0
  ELSE LET d == CHOOSE x \in S : TRUE IN FirstPairDuration(d) + SumOfFirstPairs(S \ {d})
C23_LifetimeNapsOnePerDay ==
  Returned("get_lifetime_summary") =>
    /\ ret.total_naps = Cardinality(DatesWithNap)
    /\ ret.total_naps <= ret.days_tracked
    /\ ret.avg_nap_duration.num * Max({1, Cardinality(DatesWithNap)})
         = SumOfFirstPairs(DatesWithNap) * ret.avg_nap_duration.den

\* C24: formatting a date text that is not a valid YYYY-MM-DD date returns
\* the text unchanged and never raises, in _format_date of the database
\* summary and in generate_daily_summary of the legacy parser alike.
MalformedDate(date_str) == strptime(date_str).raised
C24_MalformedDateUnchanged ==
  /\ (Returned("format_date") /\ MalformedDate(args.date_str)) => ret = args.date_str
  /\ (Returned("generate_daily_summary") /\ MalformedDate(args.date_str)) =>
       /\ ~ret[1].raised
       /\ ret[1].formatted_date = args.date_str

\* C25: get_meal_analysis counts, per meal slot, the events of the slot by
\* status all, some, none; a slot's percentages are its counts as a share of
\* its total and are 0 when the slot has no events; total_meals_tracked is
\* the sum of all slot counts, and every meal event of the window with a
\* recognised slot and status is counted in exactly one slot.
MealSlots == {"am_snack", "lunch", "pm_snack"}
SlotName(slot) ==
  IF slot = "am_snack" THEN <<"a","m"," ","s","n","a","c","k">> ELSE IF slot = "lunch" THEN <<"l","u","n","c","h">> ELSE <<"p","m"," ","s","n","a","c","k">>
StatusKeys == {"all", "some", "none"}
StatusText(key) == IF key = "all" THEN <<"a","l","l">> ELSE IF key = "some" THEN <<"s","o","m","e">> ELSE <<"n","o","n","e">>
MealEvents(slot, key) ==
  {i \in InWindow : /\ store[i].activity_type = MealType
                    /\ PyLower(store[i].activity_name) = SlotName(slot)
                    /\ store[i].activity_subtype = Some(StatusText(key))}
SlotEvents(slot) == UNION {MealEvents(slot, key) : key \in StatusKeys}
\* the number of meal events of the window by slot and status
SlotEventCounts(slot) ==
  [all |-> Cardinality(MealEvents(slot, "all")),
   some |-> Cardinality(MealEvents(slot, "some")),
   none |-> Cardinality(MealEvents(slot, "none"))]
MealEventCounts ==
  [am_snack |-> SlotEventCounts("am_snack"),
   lunch |-> SlotEventCounts("lunch"),
   pm_snack |-> SlotEventCounts("pm_snack")]
SlotSize(n, slot) == n[slot]["all"] + n[slot]["some"] + n[slot]["none"]
MealCountsRight(n) ==
  /\ ~ret.raised
  /\ \A slot \in MealSlots : \A key \in StatusKeys : ret.meal_counts[slot][key] = n[slot][key]
  /\ ret.total_meals_tracked = SlotSize(n, "am_snack") + SlotSize(n, "lunch") + SlotSize(n, "pm_snack")
  /\ ret.total_meals_tracked = Cardinality(UNION {SlotEvents(slot) : slot \in MealSlots})
  /\ \A slot \in MealSlots :
       SlotSize(n, slot) = 0 => \A key \in StatusKeys : ret.meal_percentages[slot][key] = 0
ExactShares(n) ==
  \A slot \in MealSlots : \A key \in StatusKeys :
    ret.meal_percentages[slot][key] * SlotSize(n, slot) = 1000 * n[slot][key]
RoundedShares(n) ==
  \A slot \in MealSlots : \A key \in StatusKeys :
    SlotSize(n, slot) # 0 =>
      2 * Abs(1000 * n[slot][key] - ret.meal_percentages[slot][key] * SlotSize(n, slot))
        <= SlotSize(n, slot)
ExactSharesOfCounts(n) == MealCountsRight(n) /\ ExactShares(n)
RoundedSharesOfCounts(n) == MealCountsRight(n) /\ RoundedShares(n)

\* C25 as stated, the percentages as exact shares: tenths of a percent times the total is
\* 1000 times the count
C25_ExactMealShares ==
  Returned("get_meal_analysis") => ExactSharesOfCounts(MealEventCounts)

\* C25 as the code has it: each percentage is the share rounded to one
\* decimal place, so it is within 0.05 of the exact share.
C25_RoundedMealShares ==
  Returned("get_meal_analysis") => RoundedSharesOfCounts(MealEventCounts)

\* three lunches of the window, one of each status: 33.3 percent each, and
\* a slot without events
C25_Witness ==
  /\ Returned("get_meal_analysis")
  /\ ret.meal_counts.lunch = [all |-> 1, some |-> 1, none |-> 1]
  /\ ret.meal_percentages.lunch.all = 333
  /\ ret.meal_percentages.am_snack.all = 0
  /\ ret.total_meals_tracked = 3

(***************************************************************************)
(* C26.  get_monthly_summary covers the calendar month asked for, from     *)
(* its first to its last day, December included.  Over the stored events   *)
(* of that month: total_activities is their number; the per-day counts     *)
(* hold one entry per date with events, each the number of events of that  *)
(* date, and sum to total_activities; the per-category counts hold the     *)
(* number of events of each category and sum to total_activities;          *)
(* busiest_day is none when there are no events, and otherwise the date    *)
(* with the greatest per-day count, the first one encountered on ties;     *)
(* average_daily_activities is total_activities over the number of dates   *)
(* with events, and 0 when there are none.                                 *)
(***************************************************************************)
DateYear(d) == 1000 * DigitVal(d[1]) + 100 * DigitVal(d[2]) + 10 * DigitVal(d[3]) + DigitVal(d[4])
DateMonth(d) == 10 * DigitVal(d[6]) + DigitVal(d[7])
InMonth == {i \in 1..Len(store) :
              DateYear(store[i].date) = args.year /\ DateMonth(store[i].date) = args.month}
MonthDates == {store[i].date : i \in InMonth}
MonthTypes == {store[i].activity_type : i \in InMonth}
EventsOn(d) == {i \in InMonth : store[i].date = d}
FirstEventOn(d) == Min(EventsOn(d))
RECURSIVE SumOfCounts(_, _)
SumOfCounts(counts, keys) ==
  IF keys = {} THEN 0
  ELSE LET k == CHOOSE x \in keys : TRUE IN counts[k] + SumOfCounts(counts, keys \ {k})
\* the returned summary against the events of the month, given the number
\* of events and the first event of each of its dates
MonthlySummaryOfEvents(in_month, dates, count, first) ==
  /\ ~ret.raised
  /\ ret.total_activities = Cardinality(in_month)
  /\ \A j, k \in 1..Len(ret.daily_activity_counts) :
       ret.daily_activity_counts[j].date = ret.daily_activity_counts[k].date => j = k
  /\ {ret.daily_activity_counts[k].date : k \in 1..Len(ret.daily_activity_counts)} = dates
  /\ \A k \in 1..Len(ret.daily_activity_counts) :
       ret.daily_activity_counts[k].count = count[ret.daily_activity_counts[k].date]
  /\ SeqSum([k \in 1..Len(ret.daily_activity_counts) |-> ret.daily_activity_counts[k].count])
       = ret.total_activities
  /\ DOMAIN ret.activity_type_counts = MonthTypes
  /\ \A t \in MonthTypes :
       ret.activity_type_counts[t] = Cardinality({i \in in_month : store[i].activity_type = t})
  /\ SumOfCounts(ret.activity_type_counts, DOMAIN ret.activity_type_counts) = ret.total_activities
  /\ ret.busiest_day.none <=> in_month = {}
  /\ in_month # {} =>
       /\ ret.busiest_day.val.date \in dates
       /\ ret.busiest_day.val.count = count[ret.busiest_day.val.date]
       /\ \A d \in dates : count[d] <= ret.busiest_day.val.count
       /\ \A d \in dates :
            count[d] = ret.busiest_day.val.count => first[ret.busiest_day.val.date] <= first[d]
       /\ ret.average_daily_activities = [num |-> Cardinality(in_month), den |-> Cardinality(dates)]
  /\ in_month = {} => ret.average_daily_activities.num = 0
MonthlySummaryOfDates(in_month, dates) ==
  MonthlySummaryOfEvents(in_month, dates,
                         [d \in dates |-> Cardinality(EventsOn(d))],
                         [d \in dates |-> FirstEventOn(d)])
\* C26: the summary get_monthly_summary returns is that of the stored events
\* of the calendar month asked for.
C26_MonthlySummary ==
  Returned("get_monthly_summary") => MonthlySummaryOfDates(InMonth, MonthDates)

\* December 2023 with an event on its last day stored before one on its first
\* day, and an event of the next day outside the month
C26_Witness ==
  /\ Returned("get_monthly_summary")
  /\ args.year = 2023 /\ args.month = 12
  /\ Len(store) = 3
  /\ ~ret.raised
  /\ ret.total_activities = 2
  /\ ret.busiest_day = Some([date |-> <<"2","0","2","3","-","1","2","-","3","1">>, count |-> 1])
  /\ Len(ret.daily_activity_counts) = 2

(***************************************************************************)
(* Two runs of process_messages_with_database over the same messages and   *)
(* date, a scheduled and a manual one, against one store.  The reads and   *)
(* writes of the store are separate requests: a run checks whether the     *)
(* message is processed, then extracts its activities and inserts them,    *)
(* and the requests of the other run may come in between.  pc[r] is the    *)
(* position of run r: the message it is at, and whether it is about to     *)
(* check it or to insert its activities.  ret[r] is the summary run r      *)
(* returned.                                                               *)
(***************************************************************************)
Runs == {1, 2}

RunsInit ==
  /\ call = "process_messages_with_database"
  /\ args \in {a \in ArgsOf(call) : a.messages # <<>>}
  /\ store = <<>>
  /\ pc = [r \in Runs |-> [at |-> "check", n |-> 1]]
  /\ ret = [r \in Runs |-> None]

\* the position after check_message_processed answered: `continue' to the
\* next message, or on to the extraction and the insert
AfterCheck(processed, n) ==
  IF processed THEN [at |-> "check", n |-> n + 1] ELSE [at |-> "insert", n |-> n]

\* if activities: insert_activities(activities, message_id)
InsertIfAny(table, activities, message_id) ==
  IF activities # <<>> THEN insert_activities(table, activities, message_id) ELSE table

\* run r asks whether its message is processed
RunCheck(r) ==
  /\ pc[r].at = "check" /\ pc[r].n <= Len(args.messages)
  /\ pc' = [pc EXCEPT ![r] =
              AfterCheck(check_message_processed(store, args.messages[pc[r].n].id), pc[r].n)]
  /\ UNCHANGED <<call, args, ret, store>>

\* run r extracts the activities of its message, dates them and inserts them
RunInsert(r) ==
  /\ pc[r].at = "insert"
  /\ store' = InsertIfAny(store,
                DatedActivities(extract_activities_from_message(args.messages[pc[r].n]), args.date_str),
                args.messages[pc[r].n].id)
  /\ pc' = [pc EXCEPT ![r] = [at |-> "check", n |-> pc[r].n + 1]]
  /\ UNCHANGED <<call, args, ret>>

\* run r is through its messages and returns the summary of the date
RunSummary(r) ==
  /\ pc[r].at = "check" /\ pc[r].n > Len(args.messages)
  /\ ret' = [ret EXCEPT ![r] = Some(generate_daily_summary_from_db(store, args.date_str))]
  /\ pc' = [pc EXCEPT ![r] = [at |-> "done", n |-> pc[r].n]]
  /\ UNCHANGED <<call, args, store>>

CheckMessageProcessed == \E r \in Runs : RunCheck(r)
InsertActivities == \E r \in Runs : RunInsert(r)
ReturnSummary == \E r \in Runs : RunSummary(r)

RunsNext ==
  \/ CheckMessageProcessed
  \/ InsertActivities
  \/ ReturnSummary

RunsSpec == RunsInit /\ [][RunsNext]_vars

(***************************************************************************)
(* C27.  When two runs of process_messages_with_database over the same     *)
(* messages interleave, the events of a message are stored at most once:   *)
(* in every state of the two runs, each message has no row in the store or *)
(* the rows of one insertion of its events.                                *)
(***************************************************************************)
C27_InterleavedRunsStoreOnce ==
  \A k \in 1..Len(args.messages) :
    \/ RowsOf(store, args.messages[k].id) = <<>>
    \/ RowsOf(store, args.messages[k].id) = OneInsertion(args.messages[k], args.date_str)

(***************************************************************************)
(* C28.  For the same messages and date, from an empty store, the          *)
(* processing with the database and the legacy processing in memory give   *)
(* the same daily summary fields: the same toileting and diaper counts,    *)
(* the same nap duration, the same meal status text for each slot and the  *)
(* same list of other activities.                                          *)
(***************************************************************************)
\* a meal status of the database summary is a text or None (of a stored NULL)
SameSummaryFields(db, legacy) ==
  /\ db.raised = legacy.raised
  /\ ~db.raised =>
       /\ db.summary.toiletings = legacy.summary.toiletings
       /\ db.summary.diapers = legacy.summary.diapers
       /\ db.summary.nap_duration_minutes = legacy.summary.nap_duration_minutes
       /\ db.summary.meals.am_snack = Some(legacy.summary.meals.am_snack)
       /\ db.summary.meals.lunch = Some(legacy.summary.meals.lunch)
       /\ db.summary.meals.pm_snack = Some(legacy.summary.meals.pm_snack)
       /\ db.summary.other_activities = legacy.summary.other_activities
C28_DatabaseAndLegacyAgree ==
  Returned("process_messages_with_database") =>
    SameSummaryFields(ret[1], process_messages_legacy(args.messages, args.date_str))

(***************************************************************************)
(* C29.  In the averages of get_weekly_trends, activities_per_day is the   *)
(* sum of the five daily averages by category (toileting, diaper,          *)
(* nap_sessions, meals_eaten, other_activities), each category counted     *)
(* once.                                                                   *)
(***************************************************************************)
C29_ActivitiesPerDayCountsEachCategoryOnce ==
  (Returned("get_weekly_trends") /\ ~ret.averages.empty) =>
    ret.averages.activities_per_day =
      ret.averages.toileting + ret.averages.diaper + ret.averages.nap_sessions
        + ret.averages.meals_eaten + ret.averages.other_activities

(***************************************************************************)
(* C30.  send_summary returns status success exactly when both the email   *)
(* and a phone message (WhatsApp or SMS) were sent, partial exactly when   *)
(* one of the two was sent, and failed otherwise; SMS is attempted only    *)
(* after the WhatsApp attempt, and only when that attempt failed; a failed *)
(* email never prevents the phone attempt; and no failure of a delivery    *)
(* step leaves send_summary as an exception.                               *)
(***************************************************************************)
\* what was delivered, from what the steps met
Formatted == args.delivery.format = "ok"
EmailDelivered ==
  Formatted /\ args.service.email_configured /\ args.delivery.email = "ok"
PhoneDelivered ==
  /\ Formatted /\ args.service.phone_configured
  /\ args.delivery.whatsapp = "ok" \/ args.delivery.sms = "ok"
Attempted(step) == \E i \in 1..Len(ret.attempts) : ret.attempts[i] = step
C30_SendSummaryStatus ==
  Returned("send_summary") =>
    /\ ~ret.raised
    /\ ret.email_sent = EmailDelivered
    /\ ret.sms_sent = PhoneDelivered
    /\ ret.status = "success" <=> (EmailDelivered /\ PhoneDelivered)
    /\ ret.status = "partial" <=> (EmailDelivered # PhoneDelivered)
    /\ ret.status = "failed" <=> (~EmailDelivered /\ ~PhoneDelivered)
    /\ \A i \in 1..Len(ret.attempts) :
         ret.attempts[i] = "sms" =>
           /\ args.delivery.whatsapp # "ok"
           /\ \E j \in 1..(i - 1) : ret.attempts[j] = "whatsapp"
    /\ (Formatted /\ args.service.phone_configured) => Attempted("whatsapp")
    /\ (Formatted /\ args.service.phone_configured /\ args.delivery.whatsapp # "ok") => Attempted("sms")

\* the email request raised, WhatsApp raised, and the SMS went out: partial
C30_Witness ==
  /\ Returned("send_summary")
  /\ args.service.email_configured /\ args.service.phone_configured
  /\ Formatted
  /\ args.delivery.email = "raises" /\ args.delivery.whatsapp = "raises" /\ args.delivery.sms = "ok"
  /\ ret.attempts = <<"email", "whatsapp", "sms">>
  /\ ret.status = "partial" /\ ~ret.email_sent /\ ret.sms_sent

====
